---- MODULE Spec2Model ----
(***************************************************************************)
(* The deployment reconciliation engine of aerie (package deployment):     *)
(* Deploy, StartProxy, deployService, InstallService, UpdateService,       *)
(* switchTraffic and cleanup, run against one host's container runtime.    *)
(* The host is the set of containers with their names, images, labels and  *)
(* aliases on the shared network; the program is sequential, one executor  *)
(* command at a time, and any command may fail.                            *)
(***************************************************************************)
EXTENDS Integers, Sequences, FiniteSets, TLC

\* ---------------------------------------------------------------- bounds
\* top-level calls made against the host in one behaviour
MaxCalls == 3
\* executor commands that fail for reasons outside the runtime's own rules
MaxFaults == 2
\* edits of the project file and pushes to the registry
MaxChanges == 1
\* the declared health check's retries
MaxRetries == 2
\* runs of the deploy command in one behaviour
MaxRuns == 1
\* entries in a hashed declaration's env list, and in its volume list
MaxLen == 2

\* ------------------------------------------------------------- constants
newContainerSuffix == "_new"
ProxyName == "proxy"
ProxyImage == "yarlson/zero-nginx:latest"
ProxyRetries == 30
ProjectFolder == "projects/p"
NginxFolder == "projects/p/nginx"
NginxConfig == "projects/p/nginx/default.conf"
\* a nil *config.HealthCheck; a non-nil one is <<h>>
Nil == <<>>

\* the declared servers, in declaration order
Servers == <<"h1", "h2">>
\* the declared services, in declaration order
ServiceNames == <<"api", "worker">>
\* the declared storages, in declaration order
StorageNames == <<"db">>
\* the declared named volumes
VolumeNames == <<"data">>
ImageRefs == {"nginx:1.19", "nginx:1.20", ProxyImage}

\* strings that are sorted or rendered are sequences of code points
StrA == <<65>>
StrB == <<66>>
Str1 == <<49>>
Str2 == <<50>>
StrTrue == <<116, 114, 117, 101>>
StrFalse == <<102, 97, 108, 115, 101>>
Fwd80 == <<56, 48, 58, 56, 48>>
Fwd443 == <<52, 52, 51, 58, 52, 52, 51>>
VolSsl == <<47, 112, 58, 47, 115>>
VolConf == <<47, 112, 47, 110, 58, 47, 99>>

EnvInitial == [Name |-> StrA, Value |-> Str1]
EnvUpdated == [Name |-> StrB, Value |-> Str2]

HealthCheck(retries) == [Path |-> <<47>>, Interval |-> 1, Timeout |-> 1, Retries |-> retries]

\* config.Service
Service(name, image, hc, env) ==
    [Name |-> name, Image |-> image, Port |-> 80, HealthCheck |-> hc,
     Routes |-> <<>>, Volumes |-> <<>>, Forwards |-> <<>>, EnvVars |-> env]

\* the declarations a project file may give a service
InitialDeclaration(name) ==
    Service(name, "nginx:1.19", <<HealthCheck(MaxRetries)>>, <<EnvInitial>>)

\* the declarations a project file may give a service: the initial one, and the
\* initial one with another image, another environment, or no health check
Declarations(name) ==
    { InitialDeclaration(name),
      [InitialDeclaration(name) EXCEPT !.Image = "nginx:1.20"],
      [InitialDeclaration(name) EXCEPT !.EnvVars = <<EnvUpdated>>],
      [InitialDeclaration(name) EXCEPT !.HealthCheck = Nil] }

\* the service StartProxy synthesizes
ProxyService ==
    [Name |-> ProxyName, Image |-> ProxyImage, Port |-> 80,
     HealthCheck |-> <<HealthCheck(ProxyRetries)>>,
     Routes |-> <<>>, Volumes |-> <<VolSsl, VolConf>>,
     Forwards |-> <<Fwd80, Fwd443>>,
     EnvVars |-> << [Name |-> StrA, Value |-> StrA], [Name |-> StrB, Value |-> StrB] >>]

\* ------------------------------------------------------- the fingerprint
\* s < t in the byte order of Go strings
RECURSIVE LexLess(_, _)
LexLess(s, t) ==
    IF t = <<>> THEN FALSE
    ELSE IF s = <<>> THEN TRUE
    ELSE IF Head(s) # Head(t) THEN Head(s) < Head(t)
    ELSE LexLess(Tail(s), Tail(t))

\* fmt.Sprintf("%v", x) of a string, an EnvVar and a Route
Sprintf(kind, x) ==
    CASE kind = "string" -> x
      [] kind = "EnvVar" -> <<123>> \o x.Name \o <<32>> \o x.Value \o <<125>>
      [] kind = "Route" ->
            <<123>> \o x.PathPrefix \o <<32>>
                \o (IF x.StripPrefix THEN StrTrue ELSE StrFalse) \o <<125>>

\* x placed into the sorted sequence s, before the first element rendered greater
RECURSIVE Insert(_, _, _)
Insert(kind, x, s) ==
    IF s = <<>> THEN <<x>>
    ELSE IF LexLess(Sprintf(kind, x), Sprintf(kind, Head(s))) THEN <<x>> \o s
    ELSE <<Head(s)>> \o Insert(kind, x, Tail(s))

\* sort.Slice on a short slice is an insertion sort: each element in turn moves
\* left past the elements rendered greater, so elements rendered alike keep the
\* order they came in
RECURSIVE sortSlice(_, _)
sortSlice(kind, s) ==
    IF s = <<>> THEN <<>>
    ELSE Insert(kind, s[Len(s)], sortSlice(kind, SubSeq(s, 1, Len(s) - 1)))

sortServiceFields(service) ==
    [Name |-> service.Name, Image |-> service.Image, Port |-> service.Port,
     HealthCheck |-> service.HealthCheck,
     Routes |-> sortSlice("Route", service.Routes),
     Volumes |-> sortSlice("string", service.Volumes),
     Forwards |-> sortSlice("string", service.Forwards),
     EnvVars |-> sortSlice("EnvVar", service.EnvVars)]

\* the digest of the canonical encoding; SHA-256 is taken to be injective, so
\* the digest is the encoding
ServiceHash(service) == sortServiceFields(service)

\* ------------------------------------------------------------ the state
VARIABLES
    containers,   \* the host's containers
    networkUp,    \* the shared network exists on the host
    volumesUp,    \* the named volumes that exist on the host
    files,        \* the paths that exist under the operator's home on the host
    localImages,  \* the host's image cache: reference -> identity, 0 when absent
    registry,     \* the registry: reference -> identity
    cfg,          \* the project file's services: name -> declaration
    pc,           \* the program's position
    top,          \* the function the caller invoked
    volume,       \* Deploy's position in the declared volumes
    index,        \* Deploy's position: 0 before the services, then the service's
                  \* place in the declaration order, Len + 1 in StartProxy
    svc,          \* the *config.Service deployService, Install/UpdateService work on
    hash,         \* deployService's hash: the identity of the pulled image;
                  \* ServiceHash's hash: the digest
    oldContID,    \* switchTraffic's oldContainer
    i,            \* performHealthChecks' i
    err,          \* the error of the function that last returned, "nil" for none
    log,          \* the commands issued since the caller's invocation, with outcome
    calls,        \* top-level calls made so far
    faults,       \* commands failed so far for outside reasons
    changes,      \* edits and pushes so far
    entry,        \* the host and the log's length when Install/UpdateService was entered
    last,         \* <<declaration, registry>> of the call that just returned, when it
                  \* was a successful deployService; with the error as third element
                  \* when its install timed out on health; <<>> otherwise
    aliasGap,     \* some state since UpdateService was entered had no running
                  \* container on the network carrying the service's alias
    hosts,        \* the servers' hosts as the command last left them; the host of
                  \* the connected server is the five variables above
    run,          \* runDeploy: the server it is at, each server's outcome so far,
                  \* and the exit status of the process once it has ended
    project,      \* cfg.Project
    file,         \* the project file on the operator's disk
    nginxConfig,  \* GenerateNginxConfig's result: the rendered blocks, in order
    client        \* the SSH executor: its connection and its RunCommand in progress

vars == <<containers, networkUp, volumesUp, files, localImages, registry, cfg, pc, top,
          volume, index, svc, hash, oldContID, i, err, log, calls, faults, changes,
          entry, last, aliasGap, hosts, client, file, project, nginxConfig, run>>

\* what no step of the engine changes
static == <<networkUp, volumesUp, files, registry, cfg, changes, top, volume, index, svc,
            calls, last, hosts, client, file, project, nginxConfig, run>>

\* ------------------------------------------------- the container runtime
\* one issued command: the subcommand, the container it names (by name or by
\* ID), the service on whose behalf, and whether it returned success
Cmd(c, name, id, ok) == [cmd |-> c, name |-> name, id |-> id, svc |-> svc.Name, ok |-> ok]
DriverCmd(c, name, ok) == [cmd |-> c, name |-> name, id |-> 0, svc |-> "", ok |-> ok]
ProxyCmd(c, name, ok) == [cmd |-> c, name |-> name, id |-> 0, svc |-> ProxyName, ok |-> ok]

NextID(cs) == IF cs = {} THEN 1 ELSE 1 + (CHOOSE n \in {c.id : c \in cs} : \A c \in cs : c.id <= n)

ByName(cs, name) == {c \in cs : c.name = name}
ByID(cs, id) == {c \in cs : c.id = id}

\* the containers carrying the alias on the shared network
Carriers(cs, alias) == {c \in cs : c.net /\ alias \in c.aliases}
\* a running container on the network carries the alias
Reachable(cs, alias) == \E c \in Carriers(cs, alias) : c.running

\* host ports published by running containers
PortsInUse(cs) == UNION { {c.args.forwards[k] : k \in 1..Len(c.args.forwards)} : c \in {d \in cs : d.running} }

\* docker ps -aq --filter network=N: newest first
RECURSIVE PsOrder(_)
PsOrder(cs) ==
    IF cs = {} THEN <<>>
    ELSE LET m == CHOOSE c \in cs : \A d \in cs : d.id <= c.id
         IN  <<m.id>> \o PsOrder(cs \ {m})

\* docker run -d: refused without effect when the name is taken or the network
\* is missing; a container whose host port is taken is created and not started
DockerRun(cs, net, args, image, fault) ==
    LET c == [id |-> NextID(cs), name |-> args.name, image |-> image, args |-> args,
              running |-> TRUE, net |-> TRUE, aliases |-> {args.alias}]
        clash == \E k \in 1..Len(args.forwards) : args.forwards[k] \in PortsInUse(cs)
    IN  IF ByName(cs, args.name) # {} \/ ~net \/ image = 0 \/ fault = "refused"
        THEN [ok |-> FALSE, cs |-> cs]
        ELSE IF clash \/ fault = "created"
        THEN [ok |-> FALSE, cs |-> cs \cup {[c EXCEPT !.running = FALSE]}]
        ELSE [ok |-> TRUE, cs |-> cs \cup {c}]

\* docker rm -f <name>
DockerRmForce(cs, name) ==
    IF ByName(cs, name) = {} THEN [ok |-> FALSE, cs |-> cs]
    ELSE [ok |-> TRUE, cs |-> cs \ ByName(cs, name)]

\* docker network disconnect N <container>
DockerDisconnect(cs, target) ==
    IF target = {} \/ \E c \in target : ~c.net THEN [ok |-> FALSE, cs |-> cs]
    ELSE [ok |-> TRUE,
          cs |-> (cs \ target) \cup {[c EXCEPT !.net = FALSE, !.aliases = {}] : c \in target}]

\* docker network connect --alias <alias> N <container>
DockerConnect(cs, target, alias) ==
    IF target = {} \/ \E c \in target : c.net THEN [ok |-> FALSE, cs |-> cs]
    ELSE [ok |-> TRUE,
          cs |-> (cs \ target) \cup {[c EXCEPT !.net = TRUE, !.aliases = {alias}] : c \in target}]

\* docker stop <container>
DockerStop(cs, target) ==
    IF target = {} THEN [ok |-> FALSE, cs |-> cs]
    ELSE [ok |-> TRUE, cs |-> (cs \ target) \cup {[c EXCEPT !.running = FALSE] : c \in target}]

\* docker rm <container>: a running container is not removed
DockerRm(cs, target) ==
    IF target = {} \/ \E c \in target : c.running THEN [ok |-> FALSE, cs |-> cs]
    ELSE [ok |-> TRUE, cs |-> cs \ target]

\* docker rename <from> <to>
DockerRename(cs, from, to) ==
    IF ByName(cs, from) = {} \/ ByName(cs, to) # {} THEN [ok |-> FALSE, cs |-> cs]
    ELSE [ok |-> TRUE,
          cs |-> (cs \ ByName(cs, from)) \cup {[c EXCEPT !.name = to] : c \in ByName(cs, from)}]

\* a command's result when it fails for an outside reason: no effect
Failed(cs) == [ok |-> FALSE, cs |-> cs]

\* an outside failure is drawn only while the budget lasts
MayFail(fault) == fault => faults < MaxFaults
Count(fault) == IF fault THEN faults + 1 ELSE faults

\* ------------------------------------------------------------ the engine
\* getContainerInfo's loop over the listed IDs: inspect each, skip the ones whose
\* inspect fails, stop at the first that carries the alias
RECURSIVE Scan(_, _, _, _)
Scan(cs, ids, failing, service) ==
    IF ids = <<>> THEN [found |-> {}, scanned |-> <<>>]
    ELSE LET c == CHOOSE d \in cs : d.id = Head(ids)
         IN  IF Head(ids) \notin failing /\ c.net /\ service \in c.aliases
             THEN [found |-> {c}, scanned |-> <<Head(ids)>>]
             ELSE LET r == Scan(cs, Tail(ids), failing, service)
                  IN  [found |-> r.found, scanned |-> <<Head(ids)>> \o r.scanned]

\* the container found (none: the error) and the commands issued, when the list
\* command fails (psFails) or the inspects of the IDs in failing fail
getContainerInfo(cs, service, psFails, failing) ==
    IF psFails THEN [found |-> {}, scanned |-> <<>>, psFails |-> TRUE]
    ELSE LET r == Scan(cs, PsOrder({c \in cs : c.net}), failing, service)
         IN  [found |-> r.found, scanned |-> r.scanned, psFails |-> FALSE]

\* the ways one call of getContainerInfo can go within the budget
Observations(cs, service) ==
    { o \in [psFails : BOOLEAN, failing : SUBSET {c.id : c \in {d \in cs : d.net}}] :
        /\ o.psFails => o.failing = {}
        /\ faults + (IF o.psFails THEN 1 ELSE Cardinality(o.failing)) <= MaxFaults
        /\ LET r == getContainerInfo(cs, service, o.psFails, o.failing)
           IN  o.failing \subseteq {r.scanned[k] : k \in 1..Len(r.scanned)} }

ObservationFaults(o) == IF o.psFails THEN 1 ELSE Cardinality(o.failing)

ObservationLog(o, r) ==
    <<Cmd("ps", "", 0, ~o.psFails)>>
        \o [k \in 1..Len(r.scanned) |-> Cmd("inspect", "", r.scanned[k], r.scanned[k] \notin o.failing)]

\* pullImage: docker pull, then docker images for the identity
PullOutcomes == {o \in {"ok", "pull failed", "images failed"} : o # "ok" => faults < MaxFaults}
pullImage(ref, o) ==
    /\ localImages' = IF o = "pull failed" THEN localImages
                      ELSE [localImages EXCEPT ![ref] = registry[ref]]
    /\ log' = IF o = "pull failed" THEN Append(log, Cmd("pull", ref, 0, FALSE))
              ELSE log \o <<Cmd("pull", ref, 0, TRUE), Cmd("images", ref, 0, o = "ok")>>
    /\ faults' = IF o = "ok" THEN faults ELSE faults + 1

\* startContainer gone wrong: the declared environment is not passed
startContainerArgs_noEnv(service, suffix) ==
    [name |-> service.Name \o suffix, alias |-> service.Name \o suffix,
     env |-> <<>>, volumes |-> service.Volumes,
     health |-> service.HealthCheck # Nil, forwards |-> service.Forwards,
     label |-> ServiceHash(service), image |-> service.Image]

\* startContainer gone wrong: the label is the fingerprint of the service under
\* the container's name, suffix included
startContainerArgs_labelOfSuffixed(service, suffix) ==
    [name |-> service.Name \o suffix, alias |-> service.Name \o suffix,
     env |-> service.EnvVars, volumes |-> service.Volumes,
     health |-> service.HealthCheck # Nil, forwards |-> service.Forwards,
     label |-> ServiceHash([service EXCEPT !.Name = service.Name \o suffix]),
     image |-> service.Image]

\* the arguments startContainer assembles
startContainerArgs(service, suffix) ==
    [name |-> service.Name \o suffix, alias |-> service.Name \o suffix,
     env |-> service.EnvVars, volumes |-> service.Volumes,
     health |-> service.HealthCheck # Nil, forwards |-> service.Forwards,
     label |-> ServiceHash(service), image |-> service.Image]

RunFaults == {f \in {"none", "refused", "created"} : f # "none" => faults < MaxFaults}

\* startContainer: one docker run of the assembled arguments
startContainer(service, suffix, fault) ==
    DockerRun(containers, networkUp, startContainerArgs(service, suffix),
              localImages[service.Image], fault)

\* one docker inspect of the health status: the command fails, or it prints the
\* status and a newline; the status is healthy only for a running container
StrHealthy == <<104, 101, 97, 108, 116, 104, 121>>
StrUnhealthy == <<117, 110>> \o StrHealthy

HealthOutcomes(container) ==
    {[err |-> "exit status 1", output |-> <<>>],
     [err |-> "nil", output |-> StrUnhealthy \o <<10>>]}
    \cup {o \in {[err |-> "nil", output |-> StrHealthy \o <<10>>]} :
            \E c \in ByName(containers, container) : c.running}

\* strings.TrimSpace: the string without its leading and trailing white space
IsSpace(c) == c \in {9, 10, 11, 12, 13, 32}

RECURSIVE TrimSpace(_)
TrimSpace(s) ==
    IF s = <<>> THEN s
    ELSE IF IsSpace(Head(s)) THEN TrimSpace(Tail(s))
    ELSE IF IsSpace(s[Len(s)]) THEN TrimSpace(SubSeq(s, 1, Len(s) - 1))
    ELSE s

\* the loop's test of one observation
Healthy(o) == o.err = "nil" /\ TrimSpace(o.output) = StrHealthy

\* ------------------------------------------------------------ ParseConfig
\* strings.Split: the parts of value between the separators
RECURSIVE Split(_, _)
Split(value, sep) ==
    IF \A k \in 1..Len(value) : value[k] # sep THEN <<value>>
    ELSE LET k == CHOOSE j \in 1..Len(value) :
                    value[j] = sep /\ \A m \in 1..(j - 1) : value[m] # sep
         IN  <<SubSeq(value, 1, k - 1)>> \o Split(SubSeq(value, k + 1, Len(value)), sep)

\* the two validations ParseConfig registers
volume_reference(value) ==
    LET parts == Split(value, 58)
    IN  Len(parts) = 2 /\ parts[1] # <<>> /\ parts[2] # <<>>

unix_path(value) == value # <<>> /\ value[1] = 47

\* the validator's own fqdn and email rules, on the values a project file has here
fqdn(value) == value \in {"example.com"}
email(value) == value \in {"ops@example.com"}

\* a project file that parses: whether it can be read, whether it is YAML, and
\* the validated fields of the project, of a service and of a named volume
ProjectFile ==
    [read |-> TRUE, yaml |-> TRUE, Domain |-> "example.com", Email |-> "ops@example.com",
     Port |-> 80, Volumes |-> <<VolSsl>>, Path |-> <<47, 100>>]

\* the project files: the one that parses and the ones with one defect
ProjectFiles ==
    {ProjectFile, [ProjectFile EXCEPT !.read = FALSE], [ProjectFile EXCEPT !.yaml = FALSE],
     [ProjectFile EXCEPT !.Domain = "not a domain"],
     [ProjectFile EXCEPT !.Email = "not an email"],
     [ProjectFile EXCEPT !.Port = 0], [ProjectFile EXCEPT !.Port = 65536],
     [ProjectFile EXCEPT !.Volumes = <<<<47, 112>>>>],
     [ProjectFile EXCEPT !.Volumes = <<<<58, 47, 115>>>>],
     [ProjectFile EXCEPT !.Volumes = <<<<47, 112, 58>>>>],
     [ProjectFile EXCEPT !.Path = <<100>>]}

\* parseConfig and ParseConfig: the error, "nil" for none
ParseConfig(f) ==
    IF ~f.read THEN "failed to read config file"
    ELSE IF ~f.yaml THEN "failed to parse config file: error parsing YAML"
    ELSE IF /\ f.Domain # "" /\ fqdn(f.Domain)
            /\ f.Email # "" /\ email(f.Email)
            /\ f.Port # 0 /\ f.Port >= 1 /\ f.Port <= 65535
            /\ \A k \in 1..Len(f.Volumes) : volume_reference(f.Volumes[k])
            /\ f.Path # <<>> /\ unix_path(f.Path)
    THEN "nil"
    ELSE "failed to parse config file: validation error"

\* -------------------------------------------------------------- Init
\* one server's host
Host(cs, net, vols, fs, images) ==
    [containers |-> cs, networkUp |-> net, volumesUp |-> vols, files |-> fs,
     localImages |-> images]

\* the registry at the start: each reference's image identity
InitialRegistry ==
    [r \in ImageRefs |-> CASE r = "nginx:1.19" -> 11 [] r = "nginx:1.20" -> 21 [] OTHER -> 31]

\* the service Deploy reconciles k-th: the declared ones, then the proxy
Reconciled(k) ==
    IF k <= Len(ServiceNames) THEN InitialDeclaration(ServiceNames[k]) ELSE ProxyService

\* the containers after the first k services were installed on an empty host
RECURSIVE Installed(_)
Installed(k) ==
    IF k = 0 THEN {}
    ELSE DockerRun(Installed(k - 1), TRUE, startContainerArgs(Reconciled(k), ""),
                   InitialRegistry[Reconciled(k).Image], "none").cs

\* a host as a successful Deploy of the initial project file leaves it
DeployedHost ==
    Host(Installed(Len(ServiceNames) + 1), TRUE,
         {VolumeNames[k] : k \in 1..Len(VolumeNames)},
         {ProjectFolder, NginxFolder, NginxConfig},
         [r \in ImageRefs |-> IF r \in {Reconciled(k).Image : k \in 1..(Len(ServiceNames) + 1)}
                              THEN InitialRegistry[r] ELSE 0])

\* the SSH client between calls: sshClient is "up" (connected), "down" (the
\* connection it holds is broken) or "nil"
IdleClient(conn) ==
    [pc |-> "idle", sshClient |-> conn, i |-> 0, dials |-> 0, sleeps |-> <<>>,
     process |-> "none", traps |-> FALSE, forever |-> FALSE, status |-> "nil",
     toWrite |-> <<>>, written |-> <<>>, pipe |-> <<>>, pwClosed |-> FALSE,
     waiter |-> "none", done |-> <<>>, copier |-> "none", output |-> <<>>,
     outputChan |-> "open", ctx |-> "live", signalled |-> FALSE,
     commandErr |-> "nil", reader |-> [nil |-> TRUE, bytes |-> <<>>], err |-> "nil"]

\* the state after construction: the host of the server at hand is as h, the
\* servers' hosts are kept as others
Start(h, others) ==
    /\ containers = h.containers
    /\ networkUp = h.networkUp
    /\ volumesUp = h.volumesUp
    /\ files = h.files
    /\ localImages = h.localImages
    /\ registry = InitialRegistry
    /\ cfg = [n \in {ServiceNames[k] : k \in 1..Len(ServiceNames)} |-> InitialDeclaration(n)]
    /\ pc = "idle"
    /\ top = "none"
    /\ volume = 0
    /\ index = 0
    /\ svc = InitialDeclaration(ServiceNames[1])
    /\ hash = 0
    /\ oldContID = 0
    /\ i = 0
    /\ err = "nil"
    /\ log = <<>>
    /\ calls = 0
    /\ faults = 0
    /\ changes = 0
    /\ entry = [cs |-> {}, mark |-> 0]
    /\ last = <<>>
    /\ client = IdleClient("up")
    /\ aliasGap = FALSE
    /\ hosts = [k \in 1..Len(Servers) |-> others]
    /\ run = [server |-> 0, results |-> <<>>, exit |-> "none"]
    /\ project = [Domain |-> "example.com"]
    /\ file = ProjectFile
    /\ nginxConfig = <<>>

\* a host the project was never deployed to
FreshHost == Host({}, FALSE, {}, {}, [r \in ImageRefs |-> 0])

\* the host at hand holds no container yet
Init ==
    \E net \in BOOLEAN : \E vols \in {{}, {VolumeNames[k] : k \in 1..Len(VolumeNames)}} :
        Start(Host({}, net, vols, {}, [r \in ImageRefs |-> 0]), FreshHost)

\* every server is new to the project, or every server was deployed to before
RunInit == Start(FreshHost, FreshHost) \/ Start(DeployedHost, DeployedHost)

\* ------------------------------------------------- the caller and the world
\* control is back with the caller: the call's locals and its log are gone
ToIdle ==
    /\ pc' = "idle" /\ top' = "none"
    /\ volume' = 0 /\ index' = 0
    /\ svc' = InitialDeclaration(ServiceNames[1])
    /\ hash' = 0 /\ oldContID' = 0 /\ i' = 0
    /\ err' = "nil" /\ log' = <<>>
    /\ entry' = [cs |-> {}, mark |-> 0]
    /\ last' = IF top = "deployService" /\ pc = "deployServiceReturn" /\ err = "nil"
               THEN <<svc, registry>>
               ELSE IF err = "install failed: container is unhealthy"
               THEN <<svc, registry, err>>
               ELSE <<>>
    /\ aliasGap' = FALSE
    /\ run' = IF pc = "panic" /\ top = "runDeploy" THEN [run EXCEPT !.exit = "2"] ELSE run
    /\ UNCHANGED <<containers, networkUp, volumesUp, files, localImages, registry, cfg,
                   changes, calls, faults, hosts, client, file, project>>
    /\ nginxConfig' = <<>>

\* control is back with the calling function of the engine
ToCaller(label) ==
    /\ pc' = label
    /\ UNCHANGED <<static, containers, localImages, hash, oldContID, i, err, log, faults,
                   entry, aliasGap>>

\* a nil dereference ended the process; a panicking Go process exits with 2
ProcessExit ==
    /\ pc = "panic"
    /\ ToIdle

\* what a top-level call leaves alone
untouched == <<containers, networkUp, volumesUp, files, localImages, registry, cfg,
               changes, faults, hash, oldContID, i, last, hosts, client, file, project,
               nginxConfig, run>>

\* Deploy is called with the caller's config: the caller builds it, with a
\* domain or without one, before the first call and passes the same config to
\* every call
CallDeploy ==
    /\ pc = "idle" /\ calls < MaxCalls
    /\ calls' = calls + 1
    /\ top' = "Deploy" /\ pc' = "createNetwork"
    /\ volume' = 0 /\ index' = 0 /\ err' = "nil" /\ log' = <<>>
    /\ \E domain \in IF calls = 0 THEN {"", "example.com"} ELSE {project.Domain} :
        project' = [Domain |-> domain]
    /\ UNCHANGED <<containers, networkUp, volumesUp, files, localImages, registry, cfg,
                   changes, faults, hash, oldContID, i, last, hosts, client, file,
                   nginxConfig, run, svc, entry, aliasGap>>

CallDeployService ==
    /\ pc = "idle" /\ calls < MaxCalls
    /\ \E n \in DOMAIN cfg :
        /\ svc' = cfg[n]
        /\ top' = "deployService" /\ pc' = "deployService"
    /\ calls' = calls + 1
    /\ err' = "nil" /\ log' = <<>>
    /\ UNCHANGED <<untouched, volume, index, entry, aliasGap>>

\* InstallService's precondition: no container carries the service's alias
CallInstallService ==
    /\ pc = "idle" /\ calls < MaxCalls
    /\ \E n \in DOMAIN cfg :
        /\ Carriers(containers, n) = {}
        /\ svc' = cfg[n]
        /\ top' = "InstallService" /\ pc' = "InstallService"
    /\ calls' = calls + 1
    /\ err' = "nil" /\ log' = <<>>
    /\ entry' = [cs |-> containers, mark |-> 0]
    /\ UNCHANGED <<untouched, volume, index, aliasGap>>

\* UpdateService's precondition: a container carries the service's alias
CallUpdateService ==
    /\ pc = "idle" /\ calls < MaxCalls
    /\ \E n \in DOMAIN cfg :
        /\ Carriers(containers, n) # {}
        /\ svc' = cfg[n]
        /\ top' = "UpdateService" /\ pc' = "UpdateService"
        /\ aliasGap' = ~Reachable(containers, n)
    /\ calls' = calls + 1
    /\ err' = "nil" /\ log' = <<>>
    /\ entry' = [cs |-> containers, mark |-> 0]
    /\ UNCHANGED <<untouched, volume, index>>

\* the operator edits a service's declaration between calls
EditProjectFile ==
    /\ pc = "idle" /\ changes < MaxChanges
    /\ \E n \in DOMAIN cfg : \E d \in Declarations(n) :
        /\ d # cfg[n]
        /\ cfg' = [cfg EXCEPT ![n] = d]
    /\ changes' = changes + 1
    /\ UNCHANGED <<containers, networkUp, volumesUp, files, localImages, registry, pc, top,
                   volume, index, svc, hash, oldContID, i, err, log, calls, faults,
                   entry, last, aliasGap, hosts, client, file, project, nginxConfig, run>>

\* a new image is pushed under an existing reference
RegistryPush ==
    /\ pc = "idle" /\ changes < MaxChanges
    /\ \E r \in ImageRefs : registry' = [registry EXCEPT ![r] = @ + 1]
    /\ changes' = changes + 1
    /\ UNCHANGED <<containers, networkUp, volumesUp, files, localImages, cfg, pc, top,
                   volume, index, svc, hash, oldContID, i, err, log, calls, faults,
                   entry, last, aliasGap, hosts, client, file, project, nginxConfig, run>>

\* ------------------------------------------------------- deployService
deployService_pullImage ==
    /\ pc = "deployService"
    /\ \E o \in PullOutcomes :
        /\ pullImage(svc.Image, o)
        /\ IF o = "ok"
           THEN /\ hash' = localImages'[svc.Image]
                /\ pc' = "deployService_getContainerInfo"
                /\ err' = err
           ELSE /\ hash' = hash
                /\ pc' = "deployServiceReturn"
                /\ err' = "failed to pull image"
    /\ UNCHANGED <<static, containers, oldContID, i, entry, aliasGap>>

\* no container found: InstallService; image identity differs: UpdateService;
\* otherwise on to serviceChanged
deployService_getContainerInfo ==
    /\ pc = "deployService_getContainerInfo"
    /\ \E o \in Observations(containers, svc.Name) :
        LET r == getContainerInfo(containers, svc.Name, o.psFails, o.failing)
        IN  /\ log' = log \o ObservationLog(o, r)
            /\ faults' = faults + ObservationFaults(o)
            /\ IF r.found = {}
               THEN /\ pc' = "InstallService"
                    /\ entry' = [cs |-> containers, mark |-> Len(log')]
                    /\ aliasGap' = aliasGap
               ELSE IF \E c \in r.found : hash # c.image
               THEN /\ pc' = "UpdateService"
                    /\ entry' = [cs |-> containers, mark |-> Len(log')]
                    /\ aliasGap' = ~Reachable(containers, svc.Name)
               ELSE /\ pc' = "deployService_serviceChanged"
                    /\ entry' = entry
                    /\ aliasGap' = aliasGap
    /\ UNCHANGED <<static, containers, localImages, hash, oldContID, i, err>>

\* deployService gone wrong: a container with the declared image is updated
\* whatever its label
deployService_serviceChanged_always ==
    /\ pc = "deployService_serviceChanged"
    /\ \E o \in Observations(containers, svc.Name) :
        LET r == getContainerInfo(containers, svc.Name, o.psFails, o.failing)
        IN  /\ log' = log \o ObservationLog(o, r)
            /\ faults' = faults + ObservationFaults(o)
            /\ IF r.found = {}
               THEN /\ pc' = "deployServiceReturn"
                    /\ err' = "failed to check if service has changed"
                    /\ entry' = entry
                    /\ aliasGap' = aliasGap
               ELSE /\ pc' = "UpdateService" /\ err' = err
                    /\ entry' = [cs |-> containers, mark |-> Len(log')]
                    /\ aliasGap' = ~Reachable(containers, svc.Name)
    /\ UNCHANGED <<static, containers, localImages, hash, oldContID, i>>

deployService_serviceChanged ==
    /\ pc = "deployService_serviceChanged"
    /\ \E o \in Observations(containers, svc.Name) :
        LET r == getContainerInfo(containers, svc.Name, o.psFails, o.failing)
        IN  /\ log' = log \o ObservationLog(o, r)
            /\ faults' = faults + ObservationFaults(o)
            /\ IF r.found = {}
               THEN /\ pc' = "deployServiceReturn"
                    /\ err' = "failed to check if service has changed"
                    /\ entry' = entry
                    /\ aliasGap' = aliasGap
               ELSE IF \E c \in r.found : c.args.label # ServiceHash(svc)
               THEN /\ pc' = "UpdateService" /\ err' = err
                    /\ entry' = [cs |-> containers, mark |-> Len(log')]
                    /\ aliasGap' = ~Reachable(containers, svc.Name)
               ELSE /\ pc' = "deployServiceReturn" /\ err' = "nil"
                    /\ entry' = entry
                    /\ aliasGap' = aliasGap
    /\ UNCHANGED <<static, containers, localImages, hash, oldContID, i>>

\* deployService returns to the caller, or to Deploy's loop or StartProxy
deployServiceReturn ==
    /\ pc = "deployServiceReturn"
    /\ IF top = "deployService" THEN ToIdle
       ELSE IF err # "nil" \/ index > Len(ServiceNames) THEN ToCaller("DeployReturn")
       ELSE ToCaller("Deploy_services")

\* ------------------------------------------------------ performHealthChecks
\* the log with one more health observation; a run of observations with the same
\* status is kept as one entry
Poll(l, observation) ==
    IF l # <<>> /\ l[Len(l)] = observation THEN l ELSE Append(l, observation)

\* the loop gone wrong: a failed inspect command ends the wait at once
performHealthChecks_abortOnError(container, healthyPc, timeoutPc, timeoutErr) ==
    IF svc.HealthCheck = Nil
    THEN pc' = "panic" /\ err' = err /\ i' = i /\ log' = log
    ELSE \E o \in HealthOutcomes(container) :
            /\ log' = Poll(log, Cmd("health", container, 0, Healthy(o)))
            /\ IF Healthy(o)
               THEN pc' = healthyPc /\ err' = err /\ i' = 0
               ELSE IF o.err = "nil" /\ i + 1 < svc.HealthCheck[1].Retries
               THEN pc' = pc /\ err' = err /\ i' = i + 1
               ELSE pc' = timeoutPc /\ err' = timeoutErr /\ i' = 0

\* one pass of the loop: a nil health check is dereferenced (the process dies);
\* i < Retries is tested, the status is inspected, and unless it is healthy the
\* loop sleeps and counts
performHealthChecks(container, healthyPc, timeoutPc, timeoutErr) ==
    IF svc.HealthCheck = Nil
    THEN pc' = "panic" /\ err' = err /\ i' = i /\ log' = log
    ELSE IF i >= svc.HealthCheck[1].Retries
    THEN pc' = timeoutPc /\ err' = timeoutErr /\ i' = 0 /\ log' = log
    ELSE \E o \in HealthOutcomes(container) :
            /\ log' = Poll(log, Cmd("health", container, 0, Healthy(o)))
            /\ IF Healthy(o)
               THEN pc' = healthyPc /\ err' = err /\ i' = 0
               ELSE IF i + 1 < svc.HealthCheck[1].Retries
               THEN pc' = pc /\ err' = err /\ i' = i + 1
               ELSE pc' = timeoutPc /\ err' = timeoutErr /\ i' = 0

\* ------------------------------------------------------- InstallService
InstallService_pullImage ==
    /\ pc = "InstallService"
    /\ \E o \in PullOutcomes :
        /\ pullImage(svc.Image, o)
        /\ IF o = "ok"
           THEN pc' = "InstallService_startContainer" /\ err' = err
           ELSE pc' = "InstallServiceReturn" /\ err' = "failed to pull image"
    /\ UNCHANGED <<static, containers, hash, oldContID, i, entry, aliasGap>>

InstallService_startContainer ==
    /\ pc = "InstallService_startContainer"
    /\ \E fault \in RunFaults :
        LET r == startContainer(svc, "", fault)
        IN  /\ containers' = r.cs
            /\ log' = Append(log, Cmd("run", svc.Name, 0, r.ok))
            /\ faults' = IF fault = "none" THEN faults ELSE faults + 1
            /\ IF r.ok
               THEN pc' = "InstallService_performHealthChecks" /\ err' = err
               ELSE pc' = "InstallServiceReturn" /\ err' = "failed to start container"
    /\ i' = 0
    /\ UNCHANGED <<static, localImages, hash, oldContID, entry, aliasGap>>

\* InstallService gone wrong: the container that did not become healthy is
\* removed
InstallService_performHealthChecks_removes ==
    /\ pc = "InstallService_performHealthChecks"
    /\ performHealthChecks(svc.Name, "InstallServiceReturn", "InstallServiceReturn",
                           "install failed: container is unhealthy")
    /\ containers' = IF err' = "nil" THEN containers
                     ELSE containers \ ByName(containers, svc.Name)
    /\ UNCHANGED <<static, localImages, hash, oldContID, faults, entry, aliasGap>>

InstallService_performHealthChecks ==
    /\ pc = "InstallService_performHealthChecks"
    /\ performHealthChecks(svc.Name, "InstallServiceReturn", "InstallServiceReturn",
                           "install failed: container is unhealthy")
    /\ UNCHANGED <<static, containers, localImages, hash, oldContID, faults, entry, aliasGap>>

InstallServiceReturn ==
    /\ pc = "InstallServiceReturn"
    /\ IF top = "InstallService" THEN ToIdle ELSE ToCaller("deployServiceReturn")

\* -------------------------------------------------------- UpdateService
\* a step of UpdateService that changes the host: the containers, the log, the
\* budget, and whether the alias stayed reachable
Issue(r, command, fault) ==
    /\ containers' = r.cs
    /\ log' = Append(log, command)
    /\ faults' = Count(fault)
    /\ aliasGap' = (aliasGap \/ ~Reachable(r.cs, svc.Name))

UpdateService_pullImage ==
    /\ pc = "UpdateService"
    /\ \E o \in PullOutcomes :
        /\ pullImage(svc.Image, o)
        /\ IF o = "ok"
           THEN pc' = "UpdateService_startContainer" /\ err' = err
           ELSE pc' = "UpdateServiceReturn" /\ err' = "failed to pull new image"
    /\ UNCHANGED <<static, containers, hash, oldContID, i, entry, aliasGap>>

\* UpdateService gone wrong: a shadow whose run failed is force-removed
UpdateService_startContainer_removes ==
    /\ pc = "UpdateService_startContainer"
    /\ \E fault \in RunFaults :
        LET r == startContainer(svc, newContainerSuffix, fault)
            new == svc.Name \o newContainerSuffix
        IN  IF r.ok
            THEN /\ Issue(r, Cmd("run", new, 0, TRUE), fault # "none")
                 /\ pc' = "UpdateService_performHealthChecks" /\ err' = err
            ELSE /\ containers' = r.cs \ ByName(r.cs, new)
                 /\ log' = log \o <<Cmd("run", new, 0, FALSE), Cmd("rm -f", new, 0, TRUE)>>
                 /\ faults' = Count(fault # "none")
                 /\ aliasGap' = aliasGap
                 /\ pc' = "UpdateServiceReturn" /\ err' = "failed to start new container"
    /\ i' = 0
    /\ UNCHANGED <<static, localImages, hash, oldContID, entry>>

UpdateService_startContainer ==
    /\ pc = "UpdateService_startContainer"
    /\ \E fault \in RunFaults :
        LET r == startContainer(svc, newContainerSuffix, fault)
        IN  /\ Issue(r, Cmd("run", svc.Name \o newContainerSuffix, 0, r.ok), fault # "none")
            /\ IF r.ok
               THEN pc' = "UpdateService_performHealthChecks" /\ err' = err
               ELSE pc' = "UpdateServiceReturn" /\ err' = "failed to start new container"
    /\ i' = 0
    /\ UNCHANGED <<static, localImages, hash, oldContID, entry>>

UpdateService_performHealthChecks ==
    /\ pc = "UpdateService_performHealthChecks"
    /\ performHealthChecks(svc.Name \o newContainerSuffix, "switchTraffic",
                           "UpdateService_unhealthy", err)
    /\ UNCHANGED <<static, containers, localImages, hash, oldContID, faults, entry, aliasGap>>

\* UpdateService gone wrong: the forced remove names the service's container and
\* not the shadow
UpdateService_unhealthy_removesLive ==
    /\ pc = "UpdateService_unhealthy"
    /\ \E fault \in BOOLEAN :
        /\ MayFail(fault)
        /\ LET r == IF fault THEN Failed(containers) ELSE DockerRmForce(containers, svc.Name)
           IN  /\ Issue(r, Cmd("rm -f", svc.Name, 0, r.ok), fault)
               /\ err' = IF r.ok THEN "update failed: new container is unhealthy"
                         ELSE "update failed: new container is unhealthy and cleanup failed"
    /\ pc' = "UpdateServiceReturn"
    /\ UNCHANGED <<static, localImages, hash, oldContID, i, entry>>

\* UpdateService gone wrong: the timeout is returned as InstallService returns
\* it, with no remove of the shadow
UpdateService_unhealthy_noRemove ==
    /\ pc = "UpdateService_unhealthy"
    /\ err' = "update failed: new container is unhealthy"
    /\ pc' = "UpdateServiceReturn"
    /\ UNCHANGED <<static, containers, localImages, hash, oldContID, i, log, faults, entry,
                   aliasGap>>

\* the health wait timed out: docker rm -f of the new container
UpdateService_unhealthy ==
    /\ pc = "UpdateService_unhealthy"
    /\ \E fault \in BOOLEAN :
        /\ MayFail(fault)
        /\ LET new == svc.Name \o newContainerSuffix
               r == IF fault THEN Failed(containers) ELSE DockerRmForce(containers, new)
           IN  /\ Issue(r, Cmd("rm -f", new, 0, r.ok), fault)
               /\ err' = IF r.ok THEN "update failed: new container is unhealthy"
                         ELSE "update failed: new container is unhealthy and cleanup failed"
    /\ pc' = "UpdateServiceReturn"
    /\ UNCHANGED <<static, localImages, hash, oldContID, i, entry>>

\* switchTraffic gone wrong: the swap goes on without an old container
switchTraffic_getContainerID_goesOn ==
    /\ pc = "switchTraffic"
    /\ \E o \in Observations(containers, svc.Name) :
        LET r == getContainerInfo(containers, svc.Name, o.psFails, o.failing)
        IN  /\ log' = log \o ObservationLog(o, r)
            /\ faults' = faults + ObservationFaults(o)
            /\ pc' = "switchTraffic_disconnectNew"
            /\ err' = err
            /\ oldContID' = IF r.found = {} THEN 0 ELSE (CHOOSE c \in r.found : TRUE).id
    /\ UNCHANGED <<static, containers, localImages, hash, i, entry, aliasGap>>

\* switchTraffic: getContainerID of the container carrying the service's alias
switchTraffic_getContainerID ==
    /\ pc = "switchTraffic"
    /\ \E o \in Observations(containers, svc.Name) :
        LET r == getContainerInfo(containers, svc.Name, o.psFails, o.failing)
        IN  /\ log' = log \o ObservationLog(o, r)
            /\ faults' = faults + ObservationFaults(o)
            /\ IF r.found = {}
               THEN /\ pc' = "UpdateServiceReturn"
                    /\ err' = "failed to switch traffic: failed to get old container ID"
                    /\ oldContID' = oldContID
               ELSE /\ pc' = "switchTraffic_disconnectNew"
                    /\ err' = err
                    /\ oldContID' = (CHOOSE c \in r.found : TRUE).id
    /\ UNCHANGED <<static, containers, localImages, hash, i, entry, aliasGap>>

\* docker network disconnect <network> <service>_new
switchTraffic_disconnectNew ==
    /\ pc = "switchTraffic_disconnectNew"
    /\ \E fault \in BOOLEAN :
        /\ MayFail(fault)
        /\ LET new == svc.Name \o newContainerSuffix
               r == IF fault THEN Failed(containers)
                    ELSE DockerDisconnect(containers, ByName(containers, new))
           IN  /\ Issue(r, Cmd("network disconnect", new, 0, r.ok), fault)
               /\ IF r.ok
                  THEN pc' = "switchTraffic_connectNew" /\ err' = err
                  ELSE pc' = "UpdateServiceReturn" /\ err' = "failed to switch traffic"
    /\ UNCHANGED <<static, localImages, hash, oldContID, i, entry>>

\* switchTraffic gone wrong: the shadow is reconnected with its own alias
switchTraffic_connectNew_ownAlias ==
    /\ pc = "switchTraffic_connectNew"
    /\ \E fault \in BOOLEAN :
        /\ MayFail(fault)
        /\ LET new == svc.Name \o newContainerSuffix
               r == IF fault THEN Failed(containers)
                    ELSE DockerConnect(containers, ByName(containers, new), new)
           IN  /\ Issue(r, Cmd("network connect", new, 0, r.ok), fault)
               /\ IF r.ok
                  THEN pc' = "switchTraffic_sleep" /\ err' = err
                  ELSE pc' = "UpdateServiceReturn" /\ err' = "failed to switch traffic"
    /\ UNCHANGED <<static, localImages, hash, oldContID, i, entry>>

\* docker network connect --alias <service> <network> <service>_new
switchTraffic_connectNew ==
    /\ pc = "switchTraffic_connectNew"
    /\ \E fault \in BOOLEAN :
        /\ MayFail(fault)
        /\ LET new == svc.Name \o newContainerSuffix
               r == IF fault THEN Failed(containers)
                    ELSE DockerConnect(containers, ByName(containers, new), svc.Name)
           IN  /\ Issue(r, Cmd("network connect", new, 0, r.ok), fault)
               /\ IF r.ok
                  THEN pc' = "switchTraffic_sleep" /\ err' = err
                  ELSE pc' = "UpdateServiceReturn" /\ err' = "failed to switch traffic"
    /\ UNCHANGED <<static, localImages, hash, oldContID, i, entry>>

\* switchTraffic gone wrong: no settle between the two network steps
switchTraffic_sleep_none ==
    /\ pc = "switchTraffic_sleep"
    /\ pc' = "switchTraffic_disconnectOld"
    /\ UNCHANGED <<static, containers, localImages, hash, oldContID, i, err, log, faults,
                   entry, aliasGap>>

\* time.Sleep(1 * time.Second)
switchTraffic_sleep ==
    /\ pc = "switchTraffic_sleep"
    /\ log' = Append(log, Cmd("sleep", "", 0, TRUE))
    /\ pc' = "switchTraffic_disconnectOld"
    /\ UNCHANGED <<static, containers, localImages, hash, oldContID, i, err, faults, entry,
                   aliasGap>>

\* docker network disconnect <network> <oldContainer>
switchTraffic_disconnectOld ==
    /\ pc = "switchTraffic_disconnectOld"
    /\ \E fault \in BOOLEAN :
        /\ MayFail(fault)
        /\ LET r == IF fault THEN Failed(containers)
                    ELSE DockerDisconnect(containers, ByID(containers, oldContID))
           IN  /\ Issue(r, Cmd("network disconnect", "", oldContID, r.ok), fault)
               /\ IF r.ok
                  THEN pc' = "cleanup_stop" /\ err' = err
                  ELSE pc' = "UpdateServiceReturn" /\ err' = "failed to switch traffic"
    /\ UNCHANGED <<static, localImages, hash, oldContID, i, entry>>

\* cleanup: docker stop <oldContID>
cleanup_stop ==
    /\ pc = "cleanup_stop"
    /\ \E fault \in BOOLEAN :
        /\ MayFail(fault)
        /\ LET r == IF fault THEN Failed(containers)
                    ELSE DockerStop(containers, ByID(containers, oldContID))
           IN  /\ Issue(r, Cmd("stop", "", oldContID, r.ok), fault)
               /\ IF r.ok
                  THEN pc' = "cleanup_rm" /\ err' = err
                  ELSE pc' = "UpdateServiceReturn" /\ err' = "failed to cleanup"
    /\ UNCHANGED <<static, localImages, hash, oldContID, i, entry>>

\* cleanup: docker rm <oldContID>
cleanup_rm ==
    /\ pc = "cleanup_rm"
    /\ \E fault \in BOOLEAN :
        /\ MayFail(fault)
        /\ LET r == IF fault THEN Failed(containers)
                    ELSE DockerRm(containers, ByID(containers, oldContID))
           IN  /\ Issue(r, Cmd("rm", "", oldContID, r.ok), fault)
               /\ IF r.ok
                  THEN pc' = "cleanup_rename" /\ err' = err
                  ELSE pc' = "UpdateServiceReturn" /\ err' = "failed to cleanup"
    /\ UNCHANGED <<static, localImages, hash, oldContID, i, entry>>

\* cleanup: docker rename <service>_new <service>
cleanup_rename ==
    /\ pc = "cleanup_rename"
    /\ \E fault \in BOOLEAN :
        /\ MayFail(fault)
        /\ LET new == svc.Name \o newContainerSuffix
               r == IF fault THEN Failed(containers)
                    ELSE DockerRename(containers, new, svc.Name)
           IN  /\ Issue(r, Cmd("rename", new, 0, r.ok), fault)
               /\ err' = IF r.ok THEN "nil" ELSE "failed to cleanup"
    /\ pc' = "UpdateServiceReturn"
    /\ UNCHANGED <<static, localImages, hash, oldContID, i, entry>>

UpdateServiceReturn ==
    /\ pc = "UpdateServiceReturn"
    /\ IF top = "UpdateService" THEN ToIdle ELSE ToCaller("deployServiceReturn")

\* --------------------------------------------------------------- Deploy
\* what a step of Deploy before the services leaves alone
engine == <<containers, localImages, registry, cfg, changes, top, index, svc, hash,
            oldContID, i, calls, entry, last, aliasGap, hosts, client, file, project,
            nginxConfig, run>>

\* Deploy gone wrong: the volumes are not ensured
AfterNetwork_skipVolumes == "Deploy_services"

AfterNetwork == IF Len(VolumeNames) = 0 THEN "Deploy_services" ELSE "createVolume"

\* createNetwork gone wrong: the listing's answer is not looked at
createNetwork_networkExists_ignored ==
    /\ pc = "createNetwork"
    /\ \E fault \in BOOLEAN :
        /\ MayFail(fault)
        /\ log' = Append(log, DriverCmd("network ls", "", ~fault))
        /\ faults' = Count(fault)
        /\ IF fault
           THEN pc' = "DeployReturn" /\ err' = "failed to create network"
           ELSE pc' = "createNetwork_create" /\ err' = err
    /\ UNCHANGED <<engine, networkUp, volumesUp, files, volume>>

\* createNetwork: networkExists lists the networks
createNetwork_networkExists ==
    /\ pc = "createNetwork"
    /\ \E fault \in BOOLEAN :
        /\ MayFail(fault)
        /\ log' = Append(log, DriverCmd("network ls", "", ~fault))
        /\ faults' = Count(fault)
        /\ IF fault
           THEN pc' = "DeployReturn" /\ err' = "failed to create network"
           ELSE /\ pc' = IF networkUp THEN AfterNetwork ELSE "createNetwork_create"
                /\ err' = err
    /\ UNCHANGED <<engine, networkUp, volumesUp, files, volume>>

\* createNetwork: docker network create
createNetwork_create ==
    /\ pc = "createNetwork_create"
    /\ \E fault \in BOOLEAN :
        /\ MayFail(fault)
        /\ log' = Append(log, DriverCmd("network create", "", ~fault))
        /\ faults' = Count(fault)
        /\ networkUp' = ~fault
        /\ IF fault
           THEN pc' = "DeployReturn" /\ err' = "failed to create network"
           ELSE pc' = AfterNetwork /\ err' = err
    /\ UNCHANGED <<engine, volumesUp, files, volume>>

\* createVolume: docker volume inspect; on success the volume is there
createVolume_inspect ==
    /\ pc = "createVolume"
    /\ \E fault \in BOOLEAN :
        /\ MayFail(fault)
        /\ LET v == VolumeNames[volume + 1]
               ok == ~fault /\ v \in volumesUp
           IN  /\ log' = Append(log, DriverCmd("volume inspect", v, ok))
               /\ faults' = Count(fault)
               /\ IF ~ok THEN pc' = "createVolume_create" /\ volume' = volume
                  ELSE /\ volume' = volume + 1
                       /\ pc' = IF volume + 1 < Len(VolumeNames) THEN "createVolume"
                                ELSE "Deploy_services"
    /\ UNCHANGED <<engine, networkUp, volumesUp, files, err>>

\* createVolume: docker volume create
createVolume_create ==
    /\ pc = "createVolume_create"
    /\ \E fault \in BOOLEAN :
        /\ MayFail(fault)
        /\ LET v == VolumeNames[volume + 1]
           IN  /\ log' = Append(log, DriverCmd("volume create", v, ~fault))
               /\ faults' = Count(fault)
               /\ IF fault
                  THEN /\ pc' = "DeployReturn" /\ err' = "failed to create volumes"
                       /\ volume' = volume /\ volumesUp' = volumesUp
                  ELSE /\ volumesUp' = volumesUp \cup {v}
                       /\ volume' = volume + 1
                       /\ err' = err
                       /\ pc' = IF volume + 1 < Len(VolumeNames) THEN "createVolume"
                                ELSE "Deploy_services"
    /\ UNCHANGED <<engine, networkUp, files>>

\* Deploy gone wrong: the services are taken last declared first
Deploy_services_reversed ==
    /\ pc = "Deploy_services"
    /\ index' = index + 1
    /\ IF index < Len(ServiceNames)
       THEN svc' = cfg[ServiceNames[Len(ServiceNames) - index]] /\ pc' = "deployService"
       ELSE svc' = svc /\ pc' = "StartProxy"
    /\ UNCHANGED <<containers, networkUp, volumesUp, files, localImages, registry, cfg,
                   changes, top, volume, hash, oldContID, i, err, log, calls, faults,
                   entry, last, aliasGap, hosts, client, file, project, nginxConfig, run>>

\* the loop over cfg.Services, then StartProxy
Deploy_services ==
    /\ pc = "Deploy_services"
    /\ index' = index + 1
    /\ IF index < Len(ServiceNames)
       THEN svc' = cfg[ServiceNames[index + 1]] /\ pc' = "deployService"
       ELSE svc' = svc /\ pc' = "StartProxy"
    /\ UNCHANGED <<containers, networkUp, volumesUp, files, localImages, registry, cfg,
                   changes, top, volume, hash, oldContID, i, err, log, calls, faults,
                   entry, last, aliasGap, hosts, client, file, project, nginxConfig, run>>

\* GenerateNginxConfig: an empty domain is replaced in the config itself, which
\* the caller passed by reference
DefaultDomain(p) == IF p.Domain = "" THEN [p EXCEPT !.Domain = "localhost"] ELSE p

\* StartProxy: prepareProjectFolder asks for $HOME, makes the folder, asks again
StartProxy_prepareProjectFolder ==
    /\ pc = "StartProxy"
    /\ \E failAt \in 0..3 :
        /\ MayFail(failAt # 0)
        /\ faults' = Count(failAt # 0)
        /\ log' = log \o SubSeq(<<ProxyCmd("echo $HOME", "", failAt # 1),
                                  ProxyCmd("mkdir -p", ProjectFolder, failAt # 2),
                                  ProxyCmd("echo $HOME", "", failAt # 3)>>,
                                1, IF failAt = 0 THEN 3 ELSE failAt)
        /\ files' = IF failAt \in {0, 3} THEN files \cup {ProjectFolder} ELSE files
        /\ IF failAt = 0
           THEN pc' = "StartProxy_prepareNginxConfig" /\ err' = err
           ELSE pc' = "DeployReturn" /\ err' = "failed to prepare project folder"
    /\ UNCHANGED <<engine, networkUp, volumesUp, volume>>

\* StartProxy: prepareNginxConfig renders the configuration from the caller's
\* config (GenerateNginxConfig), makes the folder and copies the rendered file;
\* then the proxy's service is built and handed to deployService
StartProxy_prepareNginxConfig ==
    /\ pc = "StartProxy_prepareNginxConfig"
    /\ \E failAt \in 0..2 :
        /\ MayFail(failAt # 0)
        /\ faults' = Count(failAt # 0)
        /\ log' = log \o SubSeq(<<ProxyCmd("mkdir -p", NginxFolder, failAt # 1),
                                  ProxyCmd("copy", NginxConfig, failAt # 2)>>,
                                1, IF failAt = 0 THEN 2 ELSE failAt)
        /\ files' = files \cup (IF failAt # 1 THEN {NginxFolder} ELSE {})
                          \cup (IF failAt = 0 THEN {NginxConfig} ELSE {})
        /\ IF failAt = 0
           THEN pc' = "deployService" /\ err' = err /\ svc' = ProxyService
           ELSE pc' = "DeployReturn" /\ err' = "failed to prepare nginx config" /\ svc' = svc
    /\ project' = DefaultDomain(project)
    /\ UNCHANGED <<containers, localImages, registry, cfg, changes, top, index, hash,
                   oldContID, i, calls, entry, last, aliasGap, networkUp, volumesUp, volume,
                   hosts, client, file, nginxConfig, run>>

\* Deploy returns: to the caller, or to deployToServer, which closes the
\* connection and hands the error to runDeploy's loop
DeployReturn ==
    /\ pc = "DeployReturn"
    /\ IF top = "runDeploy"
       THEN /\ run' = [run EXCEPT !.results =
                        Append(@, IF err = "nil" THEN "nil" ELSE "deployment failed")]
            /\ hosts' = [hosts EXCEPT ![run.server] =
                        Host(containers, networkUp, volumesUp, files, localImages)]
            /\ pc' = "runDeploy_servers"
            /\ volume' = 0 /\ index' = 0
            /\ svc' = InitialDeclaration(ServiceNames[1])
            /\ hash' = 0 /\ oldContID' = 0 /\ i' = 0
            /\ err' = "nil" /\ log' = <<>>
            /\ entry' = [cs |-> {}, mark |-> 0]
            /\ aliasGap' = FALSE
            /\ UNCHANGED <<containers, networkUp, volumesUp, files, localImages, registry,
                           cfg, changes, calls, faults, top, last, project, nginxConfig,
                           file, client>>
       ELSE ToIdle

\* --------------------------------------------------------------- runDeploy
\* the operator writes the project file before the command is run
WriteProjectFile ==
    /\ pc = "idle" /\ calls = 0
    /\ \E f \in ProjectFiles \ {file} : file' = f
    /\ UNCHANGED <<containers, networkUp, volumesUp, files, localImages, registry, cfg,
                   pc, top, volume, index, svc, hash, oldContID, i, err, log, calls,
                   faults, changes, entry, last, aliasGap, hosts, client, project, nginxConfig,
                   run>>

\* the deploy command gone wrong: the servers are deployed to whatever
\* parseConfig returned
CallRunDeploy_ignoresError ==
    /\ pc = "idle" /\ calls < MaxRuns
    /\ calls' = calls + 1
    /\ pc' = "runDeploy_servers"
    /\ top' = "runDeploy"
    /\ run' = [server |-> 0, results |-> <<>>, exit |-> "none"]
    /\ volume' = 0 /\ index' = 0 /\ err' = "nil" /\ log' = <<>>
    /\ UNCHANGED <<containers, networkUp, volumesUp, files, localImages, registry, cfg,
                   changes, hash, oldContID, i, last, hosts, client, file, project, nginxConfig,
                   svc, entry, aliasGap, faults>>

\* the deploy command is run: parseConfig reads and validates the project file
CallRunDeploy ==
    /\ pc = "idle" /\ calls < MaxRuns
    /\ calls' = calls + 1
    /\ pc' = IF ParseConfig(file) = "nil" THEN "runDeploy_servers" ELSE "runDeployReturn"
    /\ faults' = faults
    /\ top' = "runDeploy"
    /\ run' = [server |-> 0, results |-> <<>>, exit |-> "none"]
    /\ volume' = 0 /\ index' = 0 /\ err' = "nil" /\ log' = <<>>
    /\ UNCHANGED <<containers, networkUp, volumesUp, files, localImages, registry, cfg,
                   changes, hash, oldContID, i, last, hosts, client, file, project, nginxConfig, svc,
                   entry, aliasGap>>

\* the loop over cfg.Servers: deployToServer connects to the next server and
\* calls Deploy on its host; a failed connection is that server's outcome
runDeploy_deployToServer ==
    /\ pc = "runDeploy_servers"
    /\ IF run.server = Len(Servers)
       THEN /\ pc' = "runDeployReturn"
            /\ UNCHANGED <<containers, networkUp, volumesUp, files, localImages, faults, run>>
       ELSE \E fault \in BOOLEAN :
            /\ MayFail(fault)
            /\ faults' = Count(fault)
            /\ IF fault
               THEN /\ run' = [run EXCEPT !.server = @ + 1,
                                          !.results = Append(@, "failed to connect to server")]
                    /\ pc' = pc
                    /\ UNCHANGED <<containers, networkUp, volumesUp, files, localImages>>
               ELSE /\ run' = [run EXCEPT !.server = @ + 1]
                    /\ pc' = "createNetwork"
                    /\ containers' = hosts[run.server + 1].containers
                    /\ networkUp' = hosts[run.server + 1].networkUp
                    /\ volumesUp' = hosts[run.server + 1].volumesUp
                    /\ files' = hosts[run.server + 1].files
                    /\ localImages' = hosts[run.server + 1].localImages
    /\ UNCHANGED <<registry, cfg, top, volume, index, svc, hash, oldContID, i, err, log,
                   calls, changes, entry, last, aliasGap, hosts, client, file, project, nginxConfig>>

\* runDeploy returns, the command's Run returns, Execute returns nil and main
\* returns: the process ends with status 0
runDeployReturn ==
    /\ pc = "runDeployReturn"
    /\ run' = [run EXCEPT !.exit = "0"]
    /\ pc' = "idle" /\ top' = "none"
    /\ UNCHANGED <<containers, networkUp, volumesUp, files, localImages, registry, cfg,
                   volume, index, svc, hash, oldContID, i, err, log, calls, faults,
                   changes, entry, last, aliasGap, hosts, client, file, project, nginxConfig>>

\* --------------------------------------------------------------- runCommand
\* the positions whose step begins with a runCommand
CommandPcs ==
    {"createNetwork", "createNetwork_create", "createVolume", "createVolume_create",
     "StartProxy", "StartProxy_prepareNginxConfig",
     "deployService", "deployService_getContainerInfo", "deployService_serviceChanged",
     "InstallService", "InstallService_startContainer", "InstallService_performHealthChecks",
     "UpdateService", "UpdateService_startContainer", "UpdateService_performHealthChecks",
     "UpdateService_unhealthy", "switchTraffic", "switchTraffic_disconnectNew",
     "switchTraffic_connectNew", "switchTraffic_disconnectOld",
     "cleanup_stop", "cleanup_rm", "cleanup_rename"}

\* the executor has no session for a command: RunCommand returns a nil reader
\* with its error, and runCommand hands the reader to io.ReadAll before it
\* looks at the error, so the process dies of the nil dereference; l, images
\* and fs are what the step's earlier commands left
NoStream(l, images, fs) ==
    /\ faults < MaxFaults
    /\ faults' = faults + 1
    /\ pc' = "panic"
    /\ log' = l /\ localImages' = images /\ files' = fs
    /\ UNCHANGED <<containers, networkUp, volumesUp, registry, cfg, changes, top, volume,
                   index, svc, hash, oldContID, i, err, calls, entry, last, aliasGap,
                   hosts, client, file, project, nginxConfig, run>>

\* the session is lost at the first command of a step (the wait issues one
\* only on a declared health check with retries left), or at pullImage's
\* second command
runCommand_ReadAll ==
    \/ /\ pc \in CommandPcs
       /\ pc \in {"InstallService_performHealthChecks", "UpdateService_performHealthChecks"}
            => (svc.HealthCheck # Nil /\ i < svc.HealthCheck[1].Retries)
       /\ NoStream(log, localImages, files)
    \/ /\ pc \in {"deployService", "InstallService", "UpdateService"}
       /\ NoStream(Append(log, Cmd("pull", svc.Image, 0, TRUE)),
                   [localImages EXCEPT ![svc.Image] = registry[svc.Image]], files)

\* the session is lost at prepareProjectFolder's second or third command
StartProxy_ReadAll ==
    /\ pc = "StartProxy"
    /\ \E done \in 1..2 :
        NoStream(log \o SubSeq(<<ProxyCmd("echo $HOME", "", TRUE),
                                 ProxyCmd("mkdir -p", ProjectFolder, TRUE)>>, 1, done),
                 localImages,
                 IF done = 2 THEN files \cup {ProjectFolder} ELSE files)

\* ---------------------------------------------------------------- Next
\* the steps of deployService, InstallService and UpdateService
Engine ==
    \/ deployService_pullImage
    \/ deployService_getContainerInfo
    \/ deployService_serviceChanged
    \/ deployServiceReturn
    \/ InstallService_pullImage
    \/ InstallService_startContainer
    \/ InstallService_performHealthChecks
    \/ InstallServiceReturn
    \/ UpdateService_pullImage
    \/ UpdateService_startContainer
    \/ UpdateService_performHealthChecks
    \/ UpdateService_unhealthy
    \/ switchTraffic_getContainerID
    \/ switchTraffic_disconnectNew
    \/ switchTraffic_connectNew
    \/ switchTraffic_sleep
    \/ switchTraffic_disconnectOld
    \/ cleanup_stop
    \/ cleanup_rm
    \/ cleanup_rename
    \/ UpdateServiceReturn
    \/ runCommand_ReadAll
    \/ ProcessExit
    \/ EditProjectFile
    \/ RegistryPush

\* the engine's three operations called on the declared services
Next ==
    \/ CallDeployService
    \/ CallInstallService
    \/ CallUpdateService
    \/ Engine

Spec == Init /\ [][Next]_vars

\* the driver run on the host
DeployNext ==
    \/ CallDeploy
    \/ createNetwork_networkExists
    \/ createNetwork_create
    \/ createVolume_inspect
    \/ createVolume_create
    \/ Deploy_services
    \/ StartProxy_prepareProjectFolder
    \/ StartProxy_ReadAll
    \/ StartProxy_prepareNginxConfig
    \/ DeployReturn
    \/ Engine

DeploySpec == Init /\ [][DeployNext]_vars

\* the deploy command run over the servers
RunNext ==
    \/ WriteProjectFile
    \/ CallRunDeploy
    \/ runDeploy_deployToServer
    \/ runDeployReturn
    \/ createNetwork_networkExists
    \/ createNetwork_create
    \/ createVolume_inspect
    \/ createVolume_create
    \/ Deploy_services
    \/ StartProxy_prepareProjectFolder
    \/ StartProxy_ReadAll
    \/ StartProxy_prepareNginxConfig
    \/ DeployReturn
    \/ Engine

RunSpec == RunInit /\ [][RunNext]_vars

\* ------------------------------------------------------------ ServiceHash
\* two env entries that fmt.Sprintf("%v") renders alike, as {A B 1}
EnvSpaceInValue == [Name |-> StrA, Value |-> StrB \o <<32>> \o Str1]
EnvSpaceInName == [Name |-> StrA \o <<32>> \o StrB, Value |-> Str1]

\* the sequences over S of at most MaxLen elements
SeqsUpTo(S) == UNION {[1..n -> S] : n \in 0..MaxLen}

\* the declarations ServiceHash is given
HashInputs ==
    {[InitialDeclaration(ServiceNames[1]) EXCEPT !.EnvVars = env, !.Volumes = vols] :
        env \in SeqsUpTo({EnvInitial, EnvSpaceInValue, EnvSpaceInName}),
        vols \in SeqsUpTo({VolSsl, VolConf})}

\* the elements of s in the order f names
Reorder(s, f) == [k \in 1..Len(s) |-> s[f[k]]]

\* a route of a service
Route(strip) == [PathPrefix |-> <<47>>, StripPrefix |-> strip]

\* the declarations that differ from service in one declared field: the image,
\* the port, one env entry's name or value, one volume spec, the forwards, the
\* routes, the presence of the health check or one field of it
SingleChanges(service) ==
    LET hc == service.HealthCheck
    IN  ({[service EXCEPT !.Image = image] : image \in ImageRefs}
         \cup {[service EXCEPT !.Port = port] : port \in {80, 8080}}
         \cup {[service EXCEPT !.EnvVars[k].Name = name] :
                 k \in 1..Len(service.EnvVars), name \in {StrA, StrB, EnvSpaceInName.Name}}
         \cup {[service EXCEPT !.EnvVars[k].Value = value] :
                 k \in 1..Len(service.EnvVars), value \in {Str1, Str2, EnvSpaceInValue.Value}}
         \cup {[service EXCEPT !.Volumes[k] = spec] :
                 k \in 1..Len(service.Volumes), spec \in {VolSsl, VolConf}}
         \cup {[service EXCEPT !.Forwards = forwards] :
                 forwards \in {<<>>, <<Fwd80>>, <<Fwd443>>, <<Fwd80, Fwd443>>}}
         \cup {[service EXCEPT !.Routes = routes] :
                 routes \in {<<>>, <<Route(FALSE)>>, <<Route(TRUE)>>}}
         \cup {[service EXCEPT !.HealthCheck = h] :
                 h \in {Nil, <<HealthCheck(MaxRetries)>>}}
         \cup (IF hc = Nil THEN {}
               ELSE {[service EXCEPT !.HealthCheck[1].Path = path] : path \in {<<47>>, <<47, 104>>}}
                    \cup {[service EXCEPT !.HealthCheck[1].Interval = d] : d \in {1, 2}}
                    \cup {[service EXCEPT !.HealthCheck[1].Timeout = d] : d \in {1, 2}}
                    \cup {[service EXCEPT !.HealthCheck[1].Retries = n] : n \in 0..MaxRetries}))
        \ {service}

CallServiceHash ==
    /\ pc = "idle"
    /\ top' = "ServiceHash" /\ pc' = "ServiceHash"
    /\ \E service \in HashInputs : svc' = service
    /\ UNCHANGED <<containers, networkUp, volumesUp, files, localImages, registry, cfg,
                   volume, index, hash, oldContID, i, err, log, calls, faults, changes,
                   entry, last, aliasGap, hosts, client, file, project, nginxConfig, run>>

\* the declaration is hashed; the caller may hash it again with its env entries
\* and its volume entries in another order
ServiceHash_Sum256 ==
    /\ pc \in {"ServiceHash", "ServiceHash_reordered", "ServiceHash_changed"}
    /\ hash' = ServiceHash(svc)
    /\ pc' = "ServiceHashReturn"
    /\ UNCHANGED <<containers, networkUp, volumesUp, files, localImages, registry, cfg,
                   top, volume, index, svc, oldContID, i, err, log, calls, faults,
                   changes, entry, last, aliasGap, hosts, client, file, project, nginxConfig, run>>

ReorderDeclaration ==
    /\ pc = "ServiceHashReturn"
    /\ \E f \in Permutations(1..Len(svc.EnvVars)), g \in Permutations(1..Len(svc.Volumes)) :
        svc' = [svc EXCEPT !.EnvVars = Reorder(@, f), !.Volumes = Reorder(@, g)]
    /\ pc' = "ServiceHash_reordered"
    /\ UNCHANGED <<containers, networkUp, volumesUp, files, localImages, registry, cfg,
                   top, volume, index, hash, oldContID, i, err, log, calls, faults,
                   changes, entry, last, aliasGap, hosts, client, file, project, nginxConfig, run>>

\* the project file is edited in one declared field of the service, and the
\* service is hashed again
ChangeDeclaration ==
    /\ pc = "ServiceHashReturn" /\ changes < MaxChanges
    /\ changes' = changes + 1
    /\ \E service \in SingleChanges(svc) : svc' = service
    /\ pc' = "ServiceHash_changed"
    /\ UNCHANGED <<containers, networkUp, volumesUp, files, localImages, registry, cfg,
                   top, volume, index, hash, oldContID, i, err, log, calls, faults,
                   entry, last, aliasGap, hosts, client, file, project, nginxConfig, run>>

ServiceHashReturn ==
    /\ pc = "ServiceHashReturn"
    /\ ToIdle

HashNext ==
    \/ CallServiceHash
    \/ ServiceHash_Sum256
    \/ ReorderDeclaration
    \/ ChangeDeclaration
    \/ ServiceHashReturn

HashSpec == Start(FreshHost, FreshHost) /\ [][HashNext]_vars

\* ---------------------------------------------------- GenerateNginxConfig
\* the services in declaration order
Services(c) == [k \in 1..Len(ServiceNames) |-> c[ServiceNames[k]]]

\* {{range .Routes}}: one location block per route of the service
Locations(service) ==
    [k \in 1..Len(service.Routes) |->
        [location |-> service.Routes[k].PathPrefix,
         rewrite |-> service.Routes[k].StripPrefix,
         service |-> service.Name]]

\* {{range .Services}} around the location blocks
RECURSIVE AllLocations(_)
AllLocations(services) ==
    IF services = <<>> THEN <<>>
    ELSE Locations(Head(services)) \o AllLocations(Tail(services))

\* the template gone wrong: the rewrite is rendered for every route
GenerateNginxConfig_alwaysRewrite(p, services) ==
    LET domain == DefaultDomain(p).Domain
    IN  [k \in 1..Len(services) |->
            [block |-> "upstream", name |-> services[k].Name,
             server |-> <<services[k].Name, services[k].Port>>]]
        \o <<[block |-> "server", listen |-> 80, server_name |-> domain],
              [block |-> "server", listen |-> 443, server_name |-> domain,
               ssl_certificate |-> <<"/etc/nginx/ssl/", domain, ".crt">>,
               ssl_certificate_key |-> <<"/etc/nginx/ssl/", domain, ".key">>,
               locations |-> [k \in 1..Len(AllLocations(services)) |->
                                [AllLocations(services)[k] EXCEPT !.rewrite = TRUE]]]>>

\* the template's output, block by block: an upstream block per service, the
\* server block that redirects, and the server block with the certificate and
\* the location blocks
GenerateNginxConfig(p, services) ==
    LET domain == DefaultDomain(p).Domain
    IN  [k \in 1..Len(services) |->
            [block |-> "upstream", name |-> services[k].Name,
             server |-> <<services[k].Name, services[k].Port>>]]
        \o <<[block |-> "server", listen |-> 80, server_name |-> domain],
              [block |-> "server", listen |-> 443, server_name |-> domain,
               ssl_certificate |-> <<"/etc/nginx/ssl/", domain, ".crt">>,
               ssl_certificate_key |-> <<"/etc/nginx/ssl/", domain, ".key">>,
               locations |-> AllLocations(services)]>>

\* the declarations GenerateNginxConfig is given for a service
RoutedDeclarations(name) ==
    {[InitialDeclaration(name) EXCEPT !.Port = port, !.Routes = routes] :
        port \in {80, 8080},
        routes \in SeqsUpTo({Route(FALSE), Route(TRUE)})}

CallGenerateNginxConfig ==
    /\ pc = "idle" /\ calls < MaxRuns
    /\ calls' = calls + 1
    /\ top' = "GenerateNginxConfig" /\ pc' = "GenerateNginxConfig"
    /\ \E domain \in {"", "example.com"} : project' = [Domain |-> domain]
    /\ \E c \in [DOMAIN cfg -> UNION {RoutedDeclarations(n) : n \in DOMAIN cfg}] :
        /\ \A n \in DOMAIN cfg : c[n].Name = n
        /\ cfg' = c
    /\ UNCHANGED <<containers, networkUp, volumesUp, files, localImages, registry,
                   volume, index, svc, hash, oldContID, i, err, log, faults,
                   changes, entry, last, aliasGap, hosts, client, file, run, nginxConfig>>

GenerateNginxConfig_Execute ==
    /\ pc = "GenerateNginxConfig"
    /\ project' = DefaultDomain(project)
    /\ nginxConfig' = GenerateNginxConfig(project, Services(cfg))
    /\ pc' = "GenerateNginxConfigReturn"
    /\ UNCHANGED <<containers, networkUp, volumesUp, files, localImages, registry, cfg,
                   top, volume, index, svc, hash, oldContID, i, err, log, calls, faults,
                   changes, entry, last, aliasGap, hosts, client, file, run>>

GenerateNginxConfigReturn ==
    /\ pc = "GenerateNginxConfigReturn"
    /\ ToIdle

NginxNext ==
    \/ CallGenerateNginxConfig
    \/ GenerateNginxConfig_Execute
    \/ GenerateNginxConfigReturn

NginxSpec == Start(FreshHost, FreshHost) /\ [][NginxNext]_vars

\* ============================================== the SSH executor (pkg/ssh)
\* ensureConnected's loop bound
DialAttempts == 3

\* what a remote command prints
Outputs == {SubSeq(<<111, 107, 10>>, 1, n) : n \in 0..MaxLen}

\* a step of the client: nothing but the client changes
ClientStep(c) ==
    /\ client' = c
    /\ UNCHANGED <<containers, networkUp, volumesUp, files, localImages, registry, cfg, pc,
                   top, volume, index, svc, hash, oldContID, i, err, log, calls, faults,
                   changes, entry, last, aliasGap, hosts, file, project, nginxConfig, run>>

\* between calls the connection breaks, or Close is called
ConnectionLost ==
    /\ client.pc = "idle" /\ client.sshClient = "up" /\ calls < MaxCalls
    /\ \E conn \in {"down", "nil"} : ClientStep(IdleClient(conn))

\* RunCommand is called with a live context
CallRunCommand ==
    /\ pc = "idle" /\ client.pc = "idle" /\ calls < MaxCalls
    /\ calls' = calls + 1
    /\ client' = [IdleClient(client.sshClient) EXCEPT !.pc = "ensureConnected"]
    /\ UNCHANGED <<containers, networkUp, volumesUp, files, localImages, registry, cfg, pc,
                   top, volume, index, svc, hash, oldContID, i, err, log, faults,
                   changes, entry, last, aliasGap, hosts, file, project, nginxConfig, run>>

\* the caller cancels the context while the call is in progress
CancelContext ==
    /\ client.pc \notin {"idle", "return"} /\ client.ctx = "live"
    /\ ClientStep([client EXCEPT !.ctx = "cancelled"])

\* ensureConnected: a client that answers the keepalive is used as it is
ensureConnected_SendRequest ==
    /\ client.pc = "ensureConnected"
    /\ ClientStep([client EXCEPT !.pc = IF client.sshClient = "up" THEN "NewSession"
                                        ELSE "Dial"])

\* ensureConnected gone wrong: one more attempt, and the same sleep each time
ensureConnected_Dial_flat ==
    /\ client.pc = "Dial"
    /\ IF client.i > DialAttempts
       THEN ClientStep([client EXCEPT
                !.pc = "return",
                !.err = "failed to re-establish SSH connection after 3 attempts"])
       ELSE \E ok \in BOOLEAN :
            ClientStep([client EXCEPT
                !.dials = @ + 1,
                !.sshClient = IF ok THEN "up" ELSE "nil",
                !.pc = IF ok THEN "NewSession" ELSE "Dial",
                !.i = IF ok THEN @ ELSE @ + 1,
                !.sleeps = IF ok THEN @ ELSE Append(@, 1)])

\* ensureConnected's loop: for i < 3, dial; on success return, else sleep
\* i + 1 seconds; after the loop, the error
ensureConnected_Dial ==
    /\ client.pc = "Dial"
    /\ IF client.i >= DialAttempts
       THEN ClientStep([client EXCEPT
                !.pc = "return",
                !.err = "failed to re-establish SSH connection after 3 attempts"])
       ELSE \E ok \in BOOLEAN :
            ClientStep([client EXCEPT
                !.dials = @ + 1,
                !.sshClient = IF ok THEN "up" ELSE "nil",
                !.pc = IF ok THEN "NewSession" ELSE "Dial",
                !.i = IF ok THEN @ ELSE @ + 1,
                !.sleeps = IF ok THEN @ ELSE Append(@, client.i + 1)])

\* RunCommand: NewSession; its failure is returned without a stream
RunCommand_NewSession ==
    /\ client.pc = "NewSession"
    /\ \E ok \in BOOLEAN :
        ClientStep(IF ok THEN [client EXCEPT !.pc = "Start"]
                   ELSE [client EXCEPT !.pc = "return",
                                       !.err = "unable to create session"])

\* RunCommand: the pipe is made and session.Start starts the command, which
\* will print o and end with status s unless it runs forever, and which a
\* terminate signal ends unless it traps it; the two goroutines are started
RunCommand_Start ==
    /\ client.pc = "Start"
    /\ \/ ClientStep([client EXCEPT !.pc = "return", !.pwClosed = TRUE,
                                    !.err = "failed to start command"])
       \/ \E o \in Outputs : \E s \in {"nil", "exit status 1"} :
          \E t \in BOOLEAN : \E f \in BOOLEAN :
            ClientStep([client EXCEPT
                !.pc = "select", !.process = "running", !.toWrite = o, !.status = s,
                !.traps = t, !.forever = f, !.waiter = "Wait", !.copier = "Copy"])

\* the session copies what the command prints into the pipe's writer; a write
\* returns when the reader has taken it
Session_Write ==
    /\ client.process = "running" /\ client.toWrite # <<>>
    /\ client.pipe = <<>> /\ ~client.pwClosed
    /\ ClientStep([client EXCEPT !.pipe = <<Head(client.toWrite)>>,
                                 !.toWrite = Tail(@),
                                 !.written = Append(@, Head(client.toWrite))])

\* the command ends: by itself when it has printed everything, or by the
\* terminate signal
Session_Exit ==
    /\ client.process = "running"
    /\ \/ /\ client.toWrite = <<>> /\ ~client.forever
          /\ ClientStep([client EXCEPT !.process = "exited"])
       \/ /\ client.signalled /\ ~client.traps
          /\ ClientStep([client EXCEPT !.process = "exited", !.toWrite = <<>>,
                                       !.status = "signal: terminated"])

\* first goroutine: session.Wait returns once the command has ended and what
\* it printed was taken from the pipe; the result is sent on done
RunCommand_Wait ==
    /\ client.waiter = "Wait"
    /\ client.process = "exited" /\ client.pipe = <<>>
    /\ ClientStep([client EXCEPT !.done = <<client.status>>, !.waiter = "Close"])

\* first goroutine: pw.Close()
RunCommand_Close ==
    /\ client.waiter = "Close"
    /\ ClientStep([client EXCEPT !.pwClosed = TRUE, !.waiter = "end"])

\* second goroutine: io.Copy takes what is in the pipe, and ends at the
\* closed writer
RunCommand_Copy ==
    /\ client.copier = "Copy"
    /\ client.pipe # <<>> \/ client.pwClosed
    /\ ClientStep(IF client.pipe # <<>>
                  THEN [client EXCEPT !.output = @ \o client.pipe, !.pipe = <<>>]
                  ELSE [client EXCEPT !.copier = "close"])

\* second goroutine: close(outputChan)
RunCommand_closeOutputChan ==
    /\ client.copier = "close"
    /\ ClientStep([client EXCEPT !.outputChan = "closed", !.copier = "end"])

\* the select: the context is done (the session is signalled), or the first
\* goroutine sent the command's result
RunCommand_select ==
    /\ client.pc = "select"
    /\ \/ /\ client.ctx = "cancelled"
          /\ ClientStep([client EXCEPT !.pc = "outputChan", !.signalled = TRUE,
                                       !.commandErr = "context canceled"])
       \/ /\ client.done # <<>>
          /\ ClientStep([client EXCEPT
                !.pc = "outputChan", !.done = <<>>,
                !.commandErr = IF client.done[1] = "nil" THEN "nil" ELSE "command failed"])

\* RunCommand gone wrong: it returns what was copied so far
RunCommand_outputChan_noWait ==
    /\ client.pc = "outputChan"
    /\ ClientStep([client EXCEPT !.pc = "return", !.err = client.commandErr,
                                 !.reader = [nil |-> FALSE, bytes |-> client.output]])

\* <-outputChan, then the return of the copied output and the error
RunCommand_outputChan ==
    /\ client.pc = "outputChan" /\ client.outputChan = "closed"
    /\ ClientStep([client EXCEPT !.pc = "return", !.err = client.commandErr,
                                 !.reader = [nil |-> FALSE, bytes |-> client.output]])

\* the caller has the result
RunCommandReturn ==
    /\ client.pc = "return"
    /\ ClientStep(IdleClient(client.sshClient))

ClientNext ==
    \/ ConnectionLost
    \/ CallRunCommand
    \/ CancelContext
    \/ ensureConnected_SendRequest
    \/ ensureConnected_Dial
    \/ RunCommand_NewSession
    \/ RunCommand_Start
    \/ Session_Write
    \/ Session_Exit
    \/ RunCommand_Wait
    \/ RunCommand_Close
    \/ RunCommand_Copy
    \/ RunCommand_closeOutputChan
    \/ RunCommand_select
    \/ RunCommand_outputChan
    \/ RunCommandReturn

ClientSpec == Start(FreshHost, FreshHost) /\ [][ClientNext]_vars

\* ============================================================ the claims
\* the commands of the current Install/UpdateService, in order
Issued == SubSeq(log, entry.mark + 1, Len(log))
IssuedSet == {Issued[k] : k \in 1..Len(Issued)}

UpdateSucceeded == pc = "UpdateServiceReturn" /\ err = "nil"
UpdateUnhealthy ==
    /\ pc = "UpdateServiceReturn"
    /\ err \in {"update failed: new container is unhealthy",
                "update failed: new container is unhealthy and cleanup failed"}

\* C1 (swap atomicity): in an UpdateService that returns success, entered when a
\* running container on the network carried the service's alias (update's
\* precondition), every state between the call and the return had a running
\* container on the network carrying the alias.
C1_SwapAtomicity ==
    (UpdateSucceeded /\ Reachable(entry.cs, svc.Name)) => ~aliasGap

C1_Witness ==
    /\ UpdateSucceeded
    /\ Reachable(entry.cs, svc.Name)
    /\ \E c \in Carriers(containers, svc.Name) : c.id \notin {d.id : d \in entry.cs}

\* C2 (unique live alias): when deployService or UpdateService returns success,
\* exactly one container on the network carries the service's alias and none
\* carries the alias with the _new suffix.
C2_UniqueLiveAlias ==
    (pc \in {"UpdateServiceReturn", "deployServiceReturn"} /\ err = "nil")
        => /\ Cardinality(Carriers(containers, svc.Name)) = 1
           /\ Carriers(containers, svc.Name \o newContainerSuffix) = {}

\* C3 (rollback leaves the live container alone): when UpdateService returns
\* failure after the health wait timed out, every container that carried the
\* alias at the call is on the host exactly as it was (ID, name, image,
\* arguments, running, connected with the alias), and no disconnect, stop,
\* remove or rename was issued against its ID or its name.
C3_UnhealthyLeavesLive ==
    UpdateUnhealthy =>
        \A c \in Carriers(entry.cs, svc.Name) :
            /\ c \in containers
            /\ \A e \in IssuedSet :
                e.cmd \in {"network disconnect", "stop", "rm", "rm -f", "rename"}
                    => e.id # c.id /\ e.name # c.name

C3_Witness ==
    /\ UpdateUnhealthy
    /\ \E c \in Carriers(entry.cs, svc.Name) : c.running
    /\ \E e \in IssuedSet : e.cmd = "rm -f"

\* C4 as stated (shadow cleanup on failure): when UpdateService returns failure
\* after the health wait timed out, no container is named <service>_new.
C4_ShadowRemoved ==
    UpdateUnhealthy => ByName(containers, svc.Name \o newContainerSuffix) = {}

\* C4 as amended: when the health wait timed out, UpdateService issues a forced
\* remove of <service>_new before it returns; if that command succeeded no
\* container is named <service>_new, and if it failed the returned error says that
\* the cleanup failed.
C4_ShadowRemovedWhenRemoveSucceeds ==
    UpdateUnhealthy =>
        /\ \E k \in 1..Len(Issued) :
            /\ Issued[k].cmd = "rm -f"
            /\ Issued[k].name = svc.Name \o newContainerSuffix
            /\ \A j \in 1..(k - 1) : Issued[j].cmd \in {"pull", "images", "run", "health"}
            /\ k = Len(Issued)
            /\ Issued[k].ok <=> err = "update failed: new container is unhealthy"
        /\ err = "update failed: new container is unhealthy"
            => ByName(containers, svc.Name \o newContainerSuffix) = {}

C4_Witness ==
    /\ UpdateUnhealthy
    /\ err = "update failed: new container is unhealthy"
    /\ \E e \in IssuedSet : e.cmd = "run" /\ e.ok

\* C5 (the decision of reconcile): deployService installs if and only if no
\* container on the network carries the alias; otherwise it updates if the
\* carrier's image identity differs from the pulled one; otherwise it updates
\* if the carrier's config-hash label differs from the fingerprint; otherwise it
\* does nothing. One call starts at most one container. Where several
\* containers carry the alias, any of them may be taken for the live one.
Live == Carriers(containers, svc.Name)

C5_Step ==
    /\ pc = "deployService_getContainerInfo" =>
        /\ (pc' = "InstallService") <=> (Live = {})
        /\ (pc' = "UpdateService") => (\E c \in Live : c.image # hash)
        /\ (Live # {} /\ \A c \in Live : c.image # hash) => (pc' = "UpdateService")
        /\ (pc' = "deployService_serviceChanged") => (\E c \in Live : c.image = hash)
        /\ pc' \in {"InstallService", "UpdateService", "deployService_serviceChanged"}
    /\ pc = "deployService_serviceChanged" =>
        /\ (pc' = "UpdateService") => (\E c \in Live : c.args.label # ServiceHash(svc))
        /\ (\A c \in Live : c.args.label # ServiceHash(svc)) => (pc' = "UpdateService")
        /\ (pc' = "deployServiceReturn")
                => (err' = "nil" /\ containers' = containers)
        /\ pc' \in {"UpdateService", "deployServiceReturn"}
    /\ pc' = "deployServiceReturn" =>
        Cardinality({k \in 1..Len(log') : log'[k].cmd = "run" /\ log'[k].svc = svc.Name}) <= 1

C5_ReconcileDecision == [][C5_Step]_vars

\* C6 (no-op stability): a deployService that follows a successful deployService
\* of the same declaration, with the registry unchanged, issues nothing but the
\* pull, the identity query, the container list and inspects.
C6_NoopStability ==
    (top = "deployService" /\ last = <<svc, registry>>)
        => \A k \in 1..Len(log) : log[k].cmd \in {"pull", "images", "ps", "inspect"}

\* C7 (order of a successful update): when UpdateService returns success its
\* commands, the identity query and the list/inspect of the old container left
\* out, are: pull, run of <service>_new, health observations ending in healthy,
\* network disconnect of <service>_new, network connect of <service>_new with
\* the alias, the settle, network disconnect, stop and remove of the old
\* container, rename; all returned success. In every state a failed step is the
\* last command issued.
IsStep(e) == e.cmd \notin {"images", "ps", "inspect"}
Steps == SelectSeq(Issued, IsStep)
New == svc.Name \o newContainerSuffix

SuccessfulUpdateSteps(old, polled) ==
    <<Cmd("pull", svc.Image, 0, TRUE), Cmd("run", New, 0, TRUE)>>
    \o (IF polled THEN <<Cmd("health", New, 0, FALSE)>> ELSE <<>>)
    \o <<Cmd("health", New, 0, TRUE),
         Cmd("network disconnect", New, 0, TRUE),
         Cmd("network connect", New, 0, TRUE),
         Cmd("sleep", "", 0, TRUE),
         Cmd("network disconnect", "", old, TRUE),
         Cmd("stop", "", old, TRUE),
         Cmd("rm", "", old, TRUE),
         Cmd("rename", New, 0, TRUE)>>

C7_UpdateOrder ==
    /\ UpdateSucceeded =>
        \E c \in Carriers(entry.cs, svc.Name) : \E polled \in BOOLEAN :
            Steps = SuccessfulUpdateSteps(c.id, polled)
    /\ \A k \in 1..Len(Issued) :
        (Issued[k].cmd \in {"pull", "run", "network disconnect", "network connect",
                            "sleep", "stop", "rm", "rename"} /\ ~Issued[k].ok)
            => k = Len(Issued)

C7_Witness ==
    /\ UpdateSucceeded
    /\ \E e \in IssuedSet : e.cmd = "health" /\ ~e.ok

\* C8 (the shadow is promoted): when UpdateService returns success, the container
\* found by the alias was started by this call (its ID was not on the host at
\* the call), has the declared image, environment and volumes, and every
\* container that carried the alias at the call is gone; no stop or remove was
\* issued against the shadow after it was observed healthy.
C8_ShadowPromoted ==
    UpdateSucceeded =>
        LET found == getContainerInfo(containers, svc.Name, FALSE, {}).found
        IN  /\ found # {}
            /\ \A c \in found :
                /\ c.id \notin {d.id : d \in entry.cs}
                /\ c.running
                /\ c.args.image = svc.Image
                /\ c.image = registry[svc.Image]
                /\ c.args.env = svc.EnvVars
                /\ c.args.volumes = svc.Volumes
                /\ \A e \in IssuedSet :
                    e.cmd \in {"stop", "rm", "rm -f"} => e.id # c.id /\ e.name # New
            /\ \A c \in Carriers(entry.cs, svc.Name) : ByID(containers, c.id) = {}
            /\ \E e \in IssuedSet : e.cmd = "stop" /\ e.ok /\ e.id \in {c.id : c \in entry.cs}

C8_Witness ==
    /\ UpdateSucceeded
    /\ \E c \in Carriers(entry.cs, svc.Name) : c.args.env # svc.EnvVars

\* C9 (the label is the fingerprint): when InstallService or UpdateService
\* returns success, the container found by the alias carries the config-hash
\* label equal to the fingerprint of the declaration the call was given.
C9_LabelIsFingerprint ==
    (pc \in {"InstallServiceReturn", "UpdateServiceReturn"} /\ err = "nil") =>
        LET found == getContainerInfo(containers, svc.Name, FALSE, {}).found
        IN  /\ found # {}
            /\ \A c \in found : c.args.label = ServiceHash(svc)

C9_Witness ==
    /\ UpdateSucceeded
    /\ \E c \in Carriers(entry.cs, svc.Name) : c.args.label # ServiceHash(svc)

\* C10 (ordering in one driver run): in Deploy's command log the commands come
\* in the order driver, first declared service, ..., last declared service,
\* proxy; and before the proxy's container is run the configuration file was
\* copied to the project folder's nginx/default.conf.
Rank(name) ==
    IF name = "" THEN 0
    ELSE IF name = ProxyName THEN Len(ServiceNames) + 1
    ELSE CHOOSE k \in 1..Len(ServiceNames) : ServiceNames[k] = name

C10_Ordering ==
    top = "Deploy" =>
        /\ \A k \in 1..(Len(log) - 1) : Rank(log[k].svc) <= Rank(log[k + 1].svc)
        /\ \A k \in 1..Len(log) :
            (log[k].cmd = "run" /\ log[k].svc = ProxyName)
                => \E j \in 1..(k - 1) : log[j] = ProxyCmd("copy", NginxConfig, TRUE)

C10_Witness ==
    /\ top = "Deploy"
    /\ \E k \in 1..Len(log) : log[k].cmd = "run" /\ log[k].svc = ProxyName /\ log[k].ok
    /\ \A n \in DOMAIN cfg : \E k \in 1..Len(log) : log[k].cmd = "run" /\ log[k].svc = n

\* C11 (a failing service aborts its host only): when Deploy returns an error
\* to the deploy command because the reconcile of the i-th declared service
\* failed, no command was issued for a later service or for the proxy; and when
\* the command's process ends after the project file was read, every server
\* has an outcome: its connection failed or Deploy was called on its host.
Ended == run.exit # "none"

C11_AbortHostOnly ==
    /\ (top = "runDeploy" /\ pc = "DeployReturn" /\ err # "nil"
            /\ index \in 1..Len(ServiceNames))
        => \A k \in 1..Len(log) : Rank(log[k].svc) <= index
    /\ (Ended /\ run.server > 0) => Len(run.results) = Len(Servers)

\* C12 (exit status): when the command's process has ended after the project
\* file was read, its status is zero if and only if every server's outcome is
\* success.
C12_ExitStatus ==
    (Ended /\ run.server > 0)
        => (run.exit = "0" <=> /\ Len(run.results) = Len(Servers)
                                 /\ \A k \in 1..Len(run.results) : run.results[k] = "nil")

\* C13 (prerequisites first): in Deploy's command log every container run comes
\* after the network was found in the listing or created, and after every
\* declared volume was inspected or created with success, and the host then has
\* them; when Deploy returns because the network or a volume could not be
\* ensured, no container run was issued.
Declared == {VolumeNames[k] : k \in 1..Len(VolumeNames)}

NetworkKnown(k) ==
    /\ \E j \in 1..(k - 1) : log[j] = DriverCmd("network ls", "", TRUE)
    /\ \A j \in 1..(k - 1) : log[j].cmd = "network create" => log[j].ok

VolumeKnown(v, k) ==
    \E j \in 1..(k - 1) :
        /\ log[j].cmd \in {"volume inspect", "volume create"}
        /\ log[j].name = v
        /\ log[j].ok

C13_PrerequisitesFirst ==
    top = "Deploy" =>
        /\ \A k \in 1..Len(log) :
            log[k].cmd = "run" =>
                /\ NetworkKnown(k)
                /\ \A v \in Declared : VolumeKnown(v, k)
                /\ networkUp /\ Declared \subseteq volumesUp
        /\ (pc = "DeployReturn" /\ err \in {"failed to create network", "failed to create volumes"})
            => \A k \in 1..Len(log) : log[k].cmd # "run"

C13_Witness ==
    /\ top = "Deploy"
    /\ \E k \in 1..Len(log) : log[k].cmd = "run" /\ log[k].ok
    /\ \E k \in 1..Len(log) : log[k].cmd = "network create" /\ log[k].ok
    /\ \E k \in 1..Len(log) : log[k].cmd = "volume create" /\ log[k].ok

\* C14 as stated (idempotent prerequisites): in a run of Deploy on a host that
\* had the network and every declared volume when the server was connected to,
\* no network create and no volume create is issued, and when Deploy returns
\* success every declared service and the proxy is carried by a container.
Before == hosts[run.server]
InDeploy == top = "runDeploy" /\ pc \notin {"runDeploy_servers", "runDeployReturn"}
HadPrerequisites == InDeploy /\ Before.networkUp /\ Declared \subseteq Before.volumesUp
AllReconciled ==
    \A k \in 1..(Len(ServiceNames) + 1) : Carriers(containers, Reconciled(k).Name) # {}

WithoutHealthCheck == top # "none" /\ svc.HealthCheck = Nil

C15_NoHealthCheckNoWait ==
    WithoutHealthCheck =>
        /\ pc # "panic"
        /\ \A k \in 1..Len(log) : log[k].cmd # "health"
        /\ (/\ pc = "InstallServiceReturn"
            /\ \E k \in 1..Len(log) : log[k] = Cmd("run", svc.Name, 0, TRUE))
                => err = "nil"

\* C16 (health waiter): a pass of the wait's loop on a declared health check
\* makes an observation exactly when fewer than Retries observations were made,
\* so at most Retries are made, each failed one followed by the sleep of
\* Interval that the pass counts in i; the wait returns success in the pass
\* whose observation is healthy and in no other, and returns its timeout exactly
\* in the pass whose observation is the last of Retries and is not healthy, a
\* failed inspect command being an observation that is not healthy.
WaitPcs == {"InstallService_performHealthChecks", "UpdateService_performHealthChecks"}
Waiting == pc \in WaitPcs /\ svc.HealthCheck # Nil
Waited == IF pc = "InstallService_performHealthChecks" THEN svc.Name
          ELSE svc.Name \o newContainerSuffix

C16_HealthWaiter ==
    [][Waiting =>
        LET retries == svc.HealthCheck[1].Retries
            observed == log' # <<>> /\ log'[Len(log')].cmd = "health"
            healthy == observed /\ log'[Len(log')].ok
            timedOut == \/ pc' = "UpdateService_unhealthy"
                        \/ pc' = "InstallServiceReturn" /\ err' # "nil"
            succeeded == \/ pc' = "switchTraffic"
                         \/ pc' = "InstallServiceReturn" /\ err' = "nil"
        IN  /\ i < retries <=> observed
            /\ observed => log'[Len(log')].name = Waited
            /\ succeeded <=> healthy
            /\ timedOut <=> (~healthy /\ i + 1 >= retries)
            /\ (~healthy /\ i + 1 < retries) => (pc' = pc /\ i' = i + 1)
            /\ pc' \in WaitPcs \/ timedOut \/ succeeded]_vars

\* the wait timed out after Retries observations, none of them healthy
C16_Witness ==
    /\ pc = "UpdateService_unhealthy"
    /\ svc.HealthCheck # Nil /\ svc.HealthCheck[1].Retries = MaxRetries
    /\ log[Len(log)] = Cmd("health", svc.Name \o newContainerSuffix, 0, FALSE)

\* C17 (failed install keeps its container): when install returns a failure
\* after its container run succeeded, no stop and no remove command was issued
\* after that run, and the container named as the service is on the host,
\* connected to the network with the service's name as alias.
RunSucceededAt(k) == k \in 1..Len(log) /\ log[k] = Cmd("run", svc.Name, 0, TRUE)

C17_FailedInstallKeepsContainer ==
    \A k \in 1..Len(log) :
        (pc = "InstallServiceReturn" /\ err # "nil" /\ RunSucceededAt(k)) =>
            /\ \A j \in (k + 1)..Len(log) : log[j].cmd \notin {"stop", "rm", "rm -f"}
            /\ \E c \in ByName(containers, svc.Name) : c.net /\ svc.Name \in c.aliases

C17_Witness ==
    /\ pc = "InstallServiceReturn"
    /\ err = "install failed: container is unhealthy"
    /\ \E k \in 1..Len(log) : RunSucceededAt(k)

\* C18 (proxy update): when update of the synthesized proxy service returns,
\* no command having failed for a reason outside the engine (no injected fault,
\* every pull and every health wait of the proxy succeeded), it returns
\* success, exactly one container carries the alias proxy and no container is
\* named proxy_new.
ProxyUpdateReturns ==
    /\ top = "Deploy" /\ pc = "UpdateServiceReturn" /\ svc.Name = ProxyName
    /\ faults = 0
    /\ \A k \in 1..Len(log) :
        (log[k].svc = ProxyName /\ log[k].cmd \in {"pull", "health"}) => log[k].ok

C18_ProxyUpdateSucceeds ==
    ProxyUpdateReturns =>
        /\ err = "nil"
        /\ Cardinality(Carriers(containers, ProxyName)) = 1
        /\ ByName(containers, ProxyName \o newContainerSuffix) = {}

\* C19 (storages): when Deploy returns success on a host, every declared
\* storage has a container on the network that carries the storage's name as
\* alias.
C19_StoragesReconciled ==
    (top = "Deploy" /\ pc = "DeployReturn" /\ err = "nil")
        => \A k \in 1..Len(StorageNames) : Carriers(containers, StorageNames[k]) # {}

\* C20 (fingerprint stability): hashing a declaration again after its env
\* entries and its volume entries were put in another order gives the digest it
\* gave before.
C20_FingerprintStability ==
    [][pc = "ServiceHash_reordered" => hash' = hash]_vars

\* C21 (fingerprint sensitivity): hashing a declaration again after one of its
\* declared fields was changed gives another digest.
C21_FingerprintSensitivity ==
    [][pc = "ServiceHash_changed" => hash' # hash]_vars

\* C21 (fingerprint sensitivity, the decision): when every container carrying
\* the service's alias was started from a declaration that differs from the
\* present one in one declared field, its label is not the present fingerprint,
\* and deployService goes to UpdateService, at once where the image identity
\* differs and else after serviceChanged.
Drifted ==
    /\ Live # {}
    /\ \E d \in Declarations(svc.Name) :
        /\ svc \in SingleChanges(d)
        /\ \A c \in Live : c.args.label = ServiceHash(d)

C21_ChangeTakesUpdate ==
    [][/\ Drifted => \A c \in Live : c.args.label # ServiceHash(svc)
       /\ (pc = "deployService_getContainerInfo" /\ Drifted)
            => pc' \in {"UpdateService", "deployService_serviceChanged"}
       /\ (pc = "deployService_serviceChanged" /\ Drifted)
            => pc' = "UpdateService"]_vars

\* C22 (upstream blocks): the rendered configuration has an upstream block for
\* a declared service if and only if the service has at least one route.
Rendered == top = "GenerateNginxConfig" /\ pc = "GenerateNginxConfigReturn"
Blocks(kind) == {k \in 1..Len(nginxConfig) : nginxConfig[k].block = kind}

C22_UpstreamIffRouted ==
    Rendered =>
        \A n \in DOMAIN cfg :
            (\E k \in Blocks("upstream") : nginxConfig[k].name = n) <=> cfg[n].Routes # <<>>

\* C23 (location blocks): the rendered configuration has one location block
\* per declared route, in the order of the services and then of their routes,
\* each naming its own service and holding the rewrite exactly when the route
\* strips its prefix; and a project without a domain has localhost as the
\* server name and in the certificate paths.
RECURSIVE RoutesBefore(_)
RoutesBefore(k) == IF k = 1 THEN 0 ELSE RoutesBefore(k - 1) + Len(cfg[ServiceNames[k - 1]].Routes)

ServerBlocks == Blocks("server")

C23_LocationPerRoute ==
    Rendered =>
        /\ Cardinality(ServerBlocks) = 2
        /\ \E k \in ServerBlocks :
            LET locations == nginxConfig[k].locations
            IN  /\ nginxConfig[k].listen = 443
                /\ Len(locations) = RoutesBefore(Len(ServiceNames) + 1)
                /\ \A n \in 1..Len(ServiceNames) :
                    \A r \in 1..Len(cfg[ServiceNames[n]].Routes) :
                        LET route == cfg[ServiceNames[n]].Routes[r]
                            block == locations[RoutesBefore(n) + r]
                        IN  /\ block.location = route.PathPrefix
                            /\ block.service = ServiceNames[n]
                            /\ block.rewrite <=> route.StripPrefix
                /\ project.Domain = "localhost"
                    => /\ nginxConfig[k].ssl_certificate[2] = "localhost"
                       /\ nginxConfig[k].ssl_certificate_key[2] = "localhost"
        /\ project.Domain # ""
        /\ \A k \in ServerBlocks : nginxConfig[k].server_name = project.Domain

\* a project without a domain, two services with two routes each, of which one
\* strips its prefix
C23_Witness ==
    /\ Rendered
    /\ project.Domain = "localhost"
    /\ \A n \in DOMAIN cfg : cfg[n].Routes = <<Route(TRUE), Route(FALSE)>>

\* C24 (invalid project file): while the project file cannot be read, parsed
\* or validated, a run of the deploy command connects to no server and issues
\* no command: it goes from parseConfig straight to its return, and the hosts
\* stay as they were.
C24_InvalidFileNoCommand ==
    ParseConfig(file) # "nil" =>
        /\ pc \in {"idle", "runDeployReturn"}
        /\ run.server = 0 /\ run.results = <<>>
        /\ log = <<>>
        /\ \A k \in 1..Len(Servers) : hosts[k] \in {FreshHost, DeployedHost}

C24_Witness ==
    /\ ParseConfig(file) = "failed to parse config file: validation error"
    /\ Ended

\* the k-th command of the current call is c on the container named name, with
\* outcome ok
IssuedAt(k, c, name, ok) ==
    /\ k \in 1..Len(Issued)
    /\ Issued[k].cmd = c /\ Issued[k].name = name /\ Issued[k].ok = ok

\* switchTraffic disconnected the shadow and then failed to reconnect it
ReconnectFailed ==
    /\ pc = "UpdateServiceReturn"
    /\ \E k \in 1..Len(Issued) :
        /\ IssuedAt(k, "network disconnect", svc.Name \o newContainerSuffix, TRUE)
        /\ IssuedAt(k + 1, "network connect", svc.Name \o newContainerSuffix, FALSE)

\* C25 (failed reconnect): when the shadow was taken off the network and the
\* command that reconnects it with the service's alias fails, UpdateService
\* force-removes the shadow before it returns the failure: no container named
\* <service>_new remains, and the old container still carries the alias.
C25_ShadowRemovedWhenReconnectFails ==
    ReconnectFailed =>
        /\ err # "nil"
        /\ ByName(containers, svc.Name \o newContainerSuffix) = {}
        /\ Carriers(containers, svc.Name) # {}

\* the k-th command of Deploy's log is the failed disconnect of a service's old
\* container
DisconnectOldFailed(k) ==
    /\ log[k].cmd = "network disconnect" /\ log[k].name = "" /\ ~log[k].ok

\* C26 (failed disconnect of the old container): when the command that takes
\* the old container off the network fails, no later command of that update
\* disconnects the shadow again, and Deploy goes on: every service that follows
\* in the order of reconciliation is reconciled before Deploy returns.
C26_FailedDisconnectNotFatal ==
    (top = "Deploy" /\ pc = "DeployReturn") =>
        \A k \in 1..Len(log) :
            DisconnectOldFailed(k) =>
                /\ \A j \in (k + 1)..Len(log) :
                    ~(/\ log[j].cmd = "network disconnect"
                      /\ log[j].name = log[k].svc \o newContainerSuffix)
                /\ \A n \in 1..(Len(ServiceNames) + 1) :
                    Rank(Reconciled(n).Name) > Rank(log[k].svc)
                        => \E j \in (k + 1)..Len(log) : log[j].svc = Reconciled(n).Name

\* the host after a failed rename: the one container that carries the alias
\* runs under the shadow's name, and no container has the service's name
KeptShadowName(cs, name) ==
    /\ ByName(cs, name) = {}
    /\ Carriers(cs, name) # {}
    /\ \A c \in Carriers(cs, name) : c.running /\ c.name = name \o newContainerSuffix
    /\ Cardinality(Carriers(cs, name)) = 1

\* the rename was the only command that ever failed for reasons of its own,
\* and in this call every command but the container run did what it was
\* asked
OnlyRenameFailed ==
    /\ top = "deployService" /\ faults = 1
    /\ \A k \in 1..Len(log) : log[k].ok \/ log[k].cmd = "run"

\* C27 (failed rename): on a host where a failed rename left the alias with a
\* container named <service>_new, a later deployService of the service works:
\* with nothing changed it returns success without an update, and with a
\* changed declaration or image its UpdateService returns success.
C27_ReconcileAfterFailedRename ==
    /\ (/\ pc = "deployServiceReturn" /\ OnlyRenameFailed
        /\ entry.mark = 0 /\ KeptShadowName(containers, svc.Name))
            => err = "nil"
    /\ (/\ pc = "UpdateServiceReturn" /\ OnlyRenameFailed
        /\ entry.mark > 0 /\ KeptShadowName(entry.cs, svc.Name))
            => err = "nil"

\* the containers when the current deployService was called: it changes none
\* before it enters InstallService or UpdateService
AtCall == IF entry.mark = 0 THEN containers ELSE entry.cs

\* the host an update of the declaration left when it stopped inside the
\* swap, before the old container was removed: the shadow, started from this
\* declaration, runs under its own name, off the network or with the
\* service's alias, beside the old container
Interrupted(cs) ==
    /\ \E c \in ByName(cs, svc.Name \o newContainerSuffix) :
        /\ c.running /\ c.args.label = ServiceHash(svc)
        /\ ~c.net \/ svc.Name \in c.aliases
    /\ ByName(cs, svc.Name) # {}

\* C28 (recovery): a deployService of the same declaration on the host that
\* an interrupted update left, with every command of the executor working,
\* returns success and leaves exactly one container that carries the alias
\* and no container named or aliased <service>_new.
C28_RecoversInterruptedUpdate ==
    (/\ pc = "deployServiceReturn" /\ top = "deployService"
     /\ faults = 1
     /\ \A k \in 1..Len(log) : log[k].ok \/ log[k].cmd = "run"
     /\ Interrupted(AtCall))
        => /\ err = "nil"
           /\ Cardinality(Carriers(containers, svc.Name)) = 1
           /\ ByName(containers, svc.Name \o newContainerSuffix) = {}
           /\ Carriers(containers, svc.Name \o newContainerSuffix) = {}

\* a container listing or an inspect of the current deployService that failed
\* or whose output did not parse
LookupFailed(k) == log[k].cmd \in {"ps", "inspect"} /\ ~log[k].ok

\* C30 (install only on a clean lookup): deployService issues the container
\* run of InstallService only after a listing and inspects that all succeeded
\* and found no carrier of the alias; after a failed listing or inspect it
\* issues no container run and returns a failure.
C30_InstallOnlyAfterCleanLookup ==
    top = "deployService" =>
        /\ \A k \in 1..Len(log) :
            (log[k].cmd = "run" /\ log[k].name = svc.Name)
                => /\ \A j \in 1..(k - 1) : ~LookupFailed(j)
                   /\ Carriers(entry.cs, svc.Name) = {}
        /\ \A j \in 1..Len(log) :
            LookupFailed(j)
                => /\ \A k \in (j + 1)..Len(log) : log[k].cmd # "run"
                   /\ pc = "deployServiceReturn" => err # "nil"

\* the returns of the engine's operations
ReturnPcs == {"deployServiceReturn", "InstallServiceReturn", "UpdateServiceReturn",
              "DeployReturn"}

\* C29 (executor failures): a step in which a command of the executor fails,
\* by its exit status or for want of a session, ends at the return of the
\* engine's operation with an error; the process does not die and the
\* operation does not go on.
C29_FailureIsOrdinaryError ==
    [][(pc \in CommandPcs /\ faults' > faults)
        => (pc' \in ReturnPcs /\ err' # "nil")]_vars

\* the commands of the swap and of the cleanup
SwapCmds == {"network disconnect", "network connect", "stop", "rm", "rm -f", "rename"}

\* the lookup at the start of the swap found no carrier of the alias
NoOldContainer ==
    /\ pc = "UpdateServiceReturn"
    /\ err = "failed to switch traffic: failed to get old container ID"

\* C31 (no old container at the swap): when the lookup that opens the swap
\* finds no container carrying the alias, UpdateService returns a failure and
\* none of its commands was a network disconnect, a network connect, a stop,
\* a remove or a rename; the swap's first command is reached only with the ID
\* of a container that carries the alias.
C31_NoCarrierIsFatal ==
    /\ NoOldContainer => \A k \in 1..Len(Issued) : Issued[k].cmd \notin SwapCmds
    /\ pc = "switchTraffic_disconnectNew"
        => \E c \in Carriers(containers, svc.Name) : c.id = oldContID
    /\ \A k \in 1..Len(Issued) :
        Issued[k].cmd \in SwapCmds \ {"rm -f"}
            => \E j \in 1..(k - 1) : Issued[j].cmd = "inspect" /\ Issued[j].ok

\* the shadow was started and found healthy, the listing at the start of the
\* swap gave no carrier of the alias, and the update returned the failure
C31_Witness ==
    /\ NoOldContainer
    /\ Issued[Len(Issued)] = Cmd("ps", "", 0, FALSE)
    /\ \E k \in 1..Len(Issued) : Issued[k] = Cmd("health", svc.Name \o newContainerSuffix, 0, TRUE)

\* UpdateService returned because the pull or the shadow's run failed
UpdateStoppedEarly ==
    /\ pc = "UpdateServiceReturn"
    /\ err \in {"failed to pull new image", "failed to start new container"}

\* C32 (failed pull or run): when UpdateService returns because the image
\* pull or the shadow's container run failed, it issued no network
\* disconnect, network connect, stop, remove or rename, every container of
\* the host is as it was at the call (so the live container holds the alias
\* as before), and what the failed run created is still on the host.
C32_EarlyFailureTouchesNothing ==
    UpdateStoppedEarly =>
        /\ \A k \in 1..Len(Issued) : Issued[k].cmd \notin SwapCmds
        /\ entry.cs \subseteq containers
        /\ Carriers(containers, svc.Name) = Carriers(entry.cs, svc.Name)
        /\ \A c \in containers \ entry.cs :
            /\ c.name = svc.Name \o newContainerSuffix /\ ~c.running
            /\ Issued[Len(Issued)] = Cmd("run", c.name, 0, FALSE)
        /\ (err = "failed to start new container" /\ Len(Issued) > 0)
            => Issued[Len(Issued)].cmd = "run"

\* the failed run left a created shadow, which is still there at the return
C32_Witness ==
    /\ UpdateStoppedEarly
    /\ ByName(entry.cs, svc.Name \o newContainerSuffix) = {}
    /\ ByName(containers, svc.Name \o newContainerSuffix) # {}

\* the call follows one whose install of this declaration, from this
\* registry, timed out on health
AfterUnhealthyInstall ==
    /\ top = "deployService"
    /\ last = <<svc, registry, "install failed: container is unhealthy">>

\* C33 (reconcile after an unhealthy install): a deployService of the same
\* declaration and image that follows an install which timed out on health,
\* the container it left being the one carrier of the alias, and whose
\* commands all succeed, issues nothing but the pull, the identity query, the
\* container list and inspects, enters neither InstallService nor
\* UpdateService, and returns success with the host unchanged.
C33_NoopAfterUnhealthyInstall ==
    (/\ AfterUnhealthyInstall
     /\ Cardinality(Carriers(AtCall, svc.Name)) = 1
     /\ \A k \in 1..Len(log) : log[k].ok)
        => /\ \A k \in 1..Len(log) : log[k].cmd \in {"pull", "images", "ps", "inspect"}
           /\ entry.mark = 0
           /\ pc \notin {"InstallService", "UpdateService"}
           /\ pc = "deployServiceReturn" => err = "nil"

\* the deployService after the unhealthy install has returned
C33_Witness ==
    /\ AfterUnhealthyInstall
    /\ pc = "deployServiceReturn"
    /\ \E k \in 1..Len(log) : log[k].cmd = "inspect" /\ log[k].ok
    /\ \A k \in 1..Len(log) : log[k].ok
    /\ \A c \in Carriers(containers, svc.Name) : c.name = svc.Name

\* the settle window of an update: the shadow was reconnected with the alias
\* and the old container is not yet disconnected (the state in which the
\* failed disconnect is returned counted in)
SettleWindow ==
    \/ pc \in {"switchTraffic_sleep", "switchTraffic_disconnectOld"}
    \/ /\ pc = "UpdateServiceReturn" /\ err = "failed to switch traffic"
       /\ Issued[Len(Issued)].cmd = "network disconnect" /\ Issued[Len(Issued)].name = ""

\* C34 (at most two carriers): in every state at most two containers on the
\* network carry a service's alias; two carry it only in the settle window of
\* an update of that service, and outside an update at most one does.
C34_CarriersBounded ==
    \A n \in {ServiceNames[k] : k \in 1..Len(ServiceNames)} :
        /\ Cardinality(Carriers(containers, n)) <= 2
        /\ Cardinality(Carriers(containers, n)) = 2 => (svc.Name = n /\ SettleWindow)
        /\ pc = "idle" => Cardinality(Carriers(containers, n)) <= 1

\* the command was handed to a session
Proceeded == client.pc \in {"NewSession", "Start", "select", "outputChan"}

GaveUp ==
    /\ client.pc = "return"
    /\ client.err = "failed to re-establish SSH connection after 3 attempts"

\* C35 (reconnect): ensureConnected dials at most three times, sleeping 1, 2
\* and 3 seconds after the failed attempts; the command goes on right after
\* the first attempt that succeeds, on a connected client; and after the third
\* failed attempt RunCommand returns the failure with no stream, no command
\* having been started.
C35_Reconnect ==
    /\ client.dials <= DialAttempts
    /\ \A k \in 1..Len(client.sleeps) : client.sleeps[k] = k
    /\ client.pc = "Dial" => (Len(client.sleeps) = client.dials /\ client.sshClient # "up")
    /\ Proceeded =>
        /\ client.sshClient = "up"
        /\ client.dials > 0 => Len(client.sleeps) = client.dials - 1
    /\ client.process # "none" => client.sshClient = "up"
    /\ GaveUp =>
        /\ client.dials = DialAttempts /\ Len(client.sleeps) = DialAttempts
        /\ client.process = "none" /\ client.written = <<>>
        /\ client.reader.nil
    /\ (client.pc = "return" /\ client.dials = DialAttempts /\ client.sshClient # "up")
        => GaveUp

\* the third attempt failed and the failure was returned
C35_Witness == GaveUp /\ client.sleeps = <<1, 2, 3>>

\* the third attempt succeeded and the command was started
C35_Reconnected ==
    /\ client.process = "running"
    /\ client.dials = DialAttempts /\ client.sleeps = <<1, 2>>

\* C36: RunCommand returns only after the goroutine waiting for the remote
\* command and the goroutine copying its output have both ended: a returned
\* stream holds everything the command wrote, nothing is left in the pipe, and
\* a return without a stream started neither goroutine.
C36_ReturnsAfterBothTasks ==
    client.pc = "return" =>
        IF client.reader.nil
        THEN client.waiter = "none" /\ client.copier = "none"
        ELSE /\ client.waiter = "end" /\ client.copier = "end"
             /\ client.process = "exited"
             /\ client.pipe = <<>>
             /\ client.reader.bytes = client.written

\* a command that printed two bytes has returned them
C36_Witness ==
    /\ client.pc = "return" /\ ~client.reader.nil
    /\ client.waiter = "end" /\ client.copier = "end"
    /\ client.written = <<111, 107>> /\ client.reader.bytes = <<111, 107>>

\* the select took the cancellation: the session was sent the terminate signal
Cancelled == client.signalled /\ client.commandErr = "context canceled"

\* C37: a call whose context was cancelled while the remote command was
\* running has signalled the session and returns the cancellation error: once
\* the signal is sent the call has returned "context canceled" or some step of
\* the client can still be taken towards that return.
C37_CancelReturns ==
    /\ (client.pc = "outputChan" /\ client.ctx = "cancelled" /\ client.signalled)
            => ENABLED ClientNext
    /\ (client.pc = "return" /\ client.signalled) => client.err = "context canceled"

\* what holds of the cancellation: the signal is sent only by the select's
\* cancellation case, and a call that sent it returns the cancellation error
C37_SignalThenError ==
    /\ client.signalled => (client.ctx = "cancelled" /\ client.commandErr = "context canceled")
    /\ (client.pc = "return" /\ client.signalled) => client.err = "context canceled"

\* a cancelled call that has returned, after the command ended at the signal
C37_Returned ==
    /\ client.pc = "return" /\ Cancelled
    /\ client.status = "signal: terminated"

\* a cancelled call that waits for a command the signal did not end
C37_Stuck ==
    /\ client.pc = "outputChan" /\ Cancelled
    /\ client.process = "running" /\ client.traps /\ client.forever
    /\ client.toWrite = <<>> /\ client.pipe = <<>>

\* C38: the config the caller passed is not modified by a run: no step of
\* Deploy, the rendering of the proxy's configuration included, changes a
\* field of the project.
C38_ModelUnmodified == [][pc # "idle" => project' = project]_vars

\* what GenerateNginxConfig does to the caller's config: a project without a
\* domain has the domain localhost once Deploy has rendered the proxy's
\* configuration, on this call and on every later one
C38_DomainDefaulted ==
    /\ top = "Deploy" /\ pc = "DeployReturn" /\ err = "nil"
    /\ project.Domain = "localhost"

\* the second call is given the modified config
C38_NextCallSeesIt ==
    /\ top = "Deploy" /\ pc = "createNetwork" /\ calls = 2
    /\ project.Domain = "localhost"

\* a project with a domain is the same after the call
C38_DomainKept ==
    [][(pc # "idle" /\ project.Domain # "") => project' = project]_vars

\* the commands of the call whose kind is in kinds
Commands(kinds) == SelectSeq(log, LAMBDA e : e.cmd \in kinds)

\* reconcile's terminal states
Returned == top = "deployService" /\ pc = "deployServiceReturn"
EndedNoOp == err = "nil" /\ entry.mark = 0
EndedInstalled == err = "nil" /\ Commands({"run"}) = <<Cmd("run", svc.Name, 0, TRUE)>>
EndedCleaned ==
    /\ err = "nil"
    /\ Commands({"run"}) = <<Cmd("run", New, 0, TRUE)>>
    /\ log[Len(log)] = Cmd("rename", New, 0, TRUE)
EndedFailed == err # "nil"
Terminal == {<<"NoOp", EndedNoOp>>, <<"Installed", EndedInstalled>>,
             <<"Cleaned", EndedCleaned>>, <<"Failed", EndedFailed>>}

\* what holds of every reconcile call: it makes at most Retries health
\* observations in its one wait and a number of other commands bounded by the
\* containers on the host, it can always take its next step, and where it
\* returns it is in exactly one of the four terminal states
C39_BoundedAndClassified ==
    top = "deployService" =>
        /\ svc.HealthCheck # Nil
                => Len(Commands({"health"})) <= svc.HealthCheck[1].Retries
        /\ Len(Commands({"health"})) <= MaxRetries
        /\ Len(log) - Len(Commands({"health", "sleep"})) <= 15 + 3 * Cardinality(AtCall)
        /\ ENABLED Next
        /\ Returned => Cardinality({t \in Terminal : t[2]}) = 1

\* C39 (termination): a reconcile call, every command of which returns, makes
\* a bounded number of commands and ends by returning in exactly one of EndedNoOp,
\* EndedInstalled, EndedCleaned or a failure with its error: it ends nowhere else.
C39_ReconcileTerminates ==
    /\ C39_BoundedAndClassified
    /\ top = "deployService" => pc # "panic"

\* the three successful terminal states and a failure are returned
C39_ReturnedNoOp == Returned /\ EndedNoOp
C39_ReturnedInstalled == Returned /\ EndedInstalled
C39_ReturnedCleaned == Returned /\ EndedCleaned
C39_ReturnedFailed == Returned /\ EndedFailed /\ Len(Commands({"health"})) = MaxRetries

\* a reconcile call that ended in none of them: the process died in a command
\* that returned no stream, or in the wait for a health check that is not
\* declared
C39_Died == top = "deployService" /\ pc = "panic" /\ svc.HealthCheck # Nil
C39_DiedInWait == top = "deployService" /\ pc = "panic" /\ svc.HealthCheck = Nil /\ faults = 0

====
